---- MODULE Spec2Model ----
(***************************************************************************)
(* A model of illumo_flow.core: the Flow constructor (graph compilation),  *)
(* the scheduler loop of Flow.run, successor resolution and the shared     *)
(* context, for FunctionNode nodes.                                        *)
(***************************************************************************)
EXTENDS Integers, Sequences, FiniteSets, TLC

(***************************************************************************)
(* Bounds of the model.                                                    *)
(***************************************************************************)
\* number of (src, dst) pairs the edges iterable given to Flow.__init__ yields,
\* and number of Flow.run calls made on one Flow, with plain nodes
MaxEdges == 3
MaxRuns == 1
\* edges when one node has next_route, default_route or input_path set
MaxRouteEdges == 2
\* edges and Flow.run calls when a context is passed to several runs
MaxReuseEdges == 3
MaxReuseRuns == 2
\* the largest retry.max_attempts a configured policy holds, and the edges of
\* the graphs run under a configured policy
MaxAttempts == 2
MaxPolicyEdges == 2
\* the edges of the graphs whose callables may return a Routing
MaxResultEdges == 2

\* keys of the nodes mapping; node ids are ordered as their strings sort
Nodes == {1, 2, 3}
\* an id that is no key of the nodes mapping
UnknownId == 0
Ids == Nodes \cup {UnknownId}

(***************************************************************************)
(* Values held by the context.  Every Python value of the model is a       *)
(* record of one shape: None, a string, an insertion-ordered dict from     *)
(* node id to string, the context object itself (a reference), or the      *)
(* marker of a missing dict key.                                           *)
(***************************************************************************)
None == [k |-> "none", s |-> "", m |-> <<>>]
Absent == [k |-> "absent", s |-> "", m |-> <<>>]
Str(x) == [k |-> "str", s |-> x, m |-> <<>>]
Dict(pairs) == [k |-> "dict", s |-> "", m |-> pairs]
ContextRef == [k |-> "context", s |-> "", m |-> <<>>]
\* a Routing instance returned by a callable as its result
RoutingResult == [k |-> "routing", s |-> "Routing", m |-> <<>>]

\* the user_input argument of the k-th Flow.run call
UserInputOf(k) == Str(<<"u1", "u2", "u3", "u4">>[k])
\* what the callable of node n returns
OutputOf(n) == Str(<<"o1", "o2", "o3", "o4", "o5">>[n])

\* dict.get(key) on a dict from node id to value, None when the key is missing
Get(d, key) == IF d[key] = Absent THEN None ELSE d[key]

\* keys of an insertion-ordered dict
Keys(pairs) == {pairs[i][1] : i \in 1..Len(pairs)}
\* d[key] = value on an insertion-ordered dict: a present key keeps its place
DictSet(pairs, key, value) ==
    IF key \in Keys(pairs)
    THEN [i \in 1..Len(pairs) |-> IF pairs[i][1] = key THEN <<key, value>> ELSE pairs[i]]
    ELSE Append(pairs, <<key, value>>)
\* d[key] on an insertion-ordered dict that holds key
DictGet(pairs, key) == pairs[CHOOSE i \in 1..Len(pairs) : pairs[i][1] = key][2]
\* the dict as a set of (key, value) pairs, ignoring the key order
AsMapping(pairs) == {pairs[i] : i \in 1..Len(pairs)}
\* the key order of an insertion-ordered dict
KeyOrder(pairs) == [i \in 1..Len(pairs) |-> pairs[i][1]]

(***************************************************************************)
(* Routing decisions a callable may leave in context["routing"][node].     *)
(***************************************************************************)
NoRouting == [k |-> "absent", t |-> {}]
Stop == [k |-> "stop", t |-> {}]
One(x) == [k |-> "one", t |-> {x}]
Many(S) == [k |-> "many", t |-> S]
Decisions ==
    {NoRouting, Stop} \cup {One(x) : x \in Nodes}
        \cup {Many(S) : S \in {T \in SUBSET Nodes : Cardinality(T) \in {0, 2}}}

\* next_route / default_route left at None
NoRoute == UnknownId
\* input_path left at None; an input_path m stands for the path "payloads.<m>"
NoPath == UnknownId

\* sorted(S) as a tuple
RECURSIVE Sorted(_)
Sorted(S) ==
    IF S = {} THEN <<>>
    ELSE LET lo == CHOOSE x \in S : \A y \in S : x <= y
         IN <<lo>> \o Sorted(S \ {lo})

\* the orders in which a for loop may iterate over the set S
Orders(S) ==
    {o \in [1..Cardinality(S) -> S] : \A i, j \in 1..Cardinality(S) : i # j => o[i] # o[j]}

(***************************************************************************)
(* State.                                                                  *)
(***************************************************************************)
VARIABLES
    pc,                 \* where the caller and Flow.__init__ / Flow.run stand
    limits,             \* the edges and Flow.run calls the caller makes, the
                        \* routing decisions the callables leave and the kinds
                        \* of result they return
    policy,             \* FlowRuntime.current().policy
    next_route,         \* Node.next_route of every node
    default_route,      \* Node.default_route of every node
    input_path,         \* Node._input_path of every node
    entry_id,           \* Flow.entry_id
    adjacency,          \* Flow.adjacency
    reverse,            \* Flow.reverse
    parent_counts,      \* Flow.parent_counts
    parent_order,       \* Flow.parent_order
    dependency_counts,  \* Flow.dependency_counts
    edges_seen,         \* pairs Flow.__init__ has taken from the edges iterable
    runs,               \* Flow.run calls begun on this Flow
    user_input,         \* the user_input argument of the current run
    context,            \* the context mapping of the current run
    steps0,             \* len(context["steps"]) when the current run began
    ready,              \* Flow.run: ready
    remaining,          \* Flow.run: remaining
    completed,          \* Flow.run: completed
    in_queue,           \* Flow.run: in_queue
    join_buffers,       \* Flow.run: join_buffers
    last_output,        \* Flow.run: last_output
    node_id,            \* Flow.run: node_id
    input_payload,      \* Flow.run: input_payload
    routing,            \* Flow._resolve_successors: routing, as last popped
    retval,             \* what the last completed Flow.run returned
    error,              \* the exception that left Flow.__init__ / Flow.run
    dsl,                \* Flow._parse_edge_expression: the expression and its parse
    binding,            \* Node.bind: the node's _node_id and the outcome of a bind
    resolver,           \* _set_to_path / _get_from_path: the mapping, path and value
    merging,            \* _merge_policy: the base, the override and the result
    validating,         \* PolicyValidator.normalize: the input and the outcome
    tracker,            \* SpanTracker: _stack, _spans and what the tracer was told
    runtime             \* FlowRuntime: _global and the FlowRuntime.run calls

flow_vars ==
    <<entry_id, adjacency, reverse, parent_counts, parent_order, dependency_counts>>
node_vars == <<next_route, default_route, input_path, policy>>
run_vars ==
    <<ready, remaining, completed, in_queue, join_buffers, last_output, node_id,
      input_payload, routing>>
\* the state of Flow, and the state of the functions beside it
core_vars ==
    <<pc, limits, node_vars, flow_vars, edges_seen, runs, user_input, context, steps0,
      run_vars, retval, error>>
lib_vars == <<dsl, binding, resolver, merging, validating, tracker, runtime>>
vars == <<core_vars, lib_vars>>

NoError == [type |-> "", node |-> UnknownId, invalid |-> {}]
FlowError(n, invalid) == [type |-> "FlowError", node |-> n, invalid |-> invalid]
RuntimeError(n) == [type |-> "RuntimeError", node |-> n, invalid |-> {}]

Step(n, status, message) == [node_id |-> n, status |-> status, message |-> message]

\* _ensure_context applied to an empty mapping (or to None)
EmptyContext ==
    [steps |-> <<>>,
     routing |-> [n \in Nodes |-> NoRouting],
     joins |-> [n \in Nodes |-> Absent],
     errors |-> <<>>,
     payloads |-> [n \in Nodes |-> Absent],
     failed_node_id |-> UnknownId,
     failed_exception_type |-> "",
     failed_message |-> ""]

\* contexts a caller builds by hand: empty, or with a payloads mapping that
\* already holds values
CallerContexts ==
    {EmptyContext, [EmptyContext EXCEPT !.payloads = [n \in Nodes |-> Str("old")]]}

\* the node attributes: every node plain, or one node with attributes set
PlainNodes ==
    [next_route |-> [n \in Nodes |-> NoRoute],
     default_route |-> [n \in Nodes |-> NoRoute],
     input_path |-> [n \in Nodes |-> NoPath]]
NodeSetups ==
    {[PlainNodes EXCEPT !.next_route[n] = a] : n \in Nodes, a \in Nodes}
        \cup {[PlainNodes EXCEPT !.default_route[n] = a] : n \in Nodes, a \in Nodes}
        \cup {[PlainNodes EXCEPT !.input_path[n] = a] : n \in Nodes, a \in Nodes}

\* Policy(), and the policies FlowRuntime.configure is given
DefaultPolicy ==
    [fail_fast |-> TRUE,
     retry |-> [max_attempts |-> 0],
     on_error |-> [action |-> "stop", target |-> NoRoute]]
Policies ==
    {[DefaultPolicy EXCEPT !.retry.max_attempts = m] : m \in 0..MaxAttempts}
        \cup {[DefaultPolicy EXCEPT !.fail_fast = FALSE, !.on_error.action = "continue"]}
        \cup {[DefaultPolicy EXCEPT !.on_error = [action |-> "goto", target |-> t]] :
                 t \in Nodes}

\* a function beside Flow that is not in use
AtRest == [at |-> "rest"]
LibAtRest ==
    /\ dsl = AtRest
    /\ binding = AtRest
    /\ resolver = AtRest
    /\ merging = AtRest
    /\ validating = AtRest
    /\ tracker = AtRest
    /\ runtime = AtRest

InitFlow(setups, edges, calls, decisions, results, policies) ==
    /\ pc = "new"
    /\ limits = [edges |-> edges, runs |-> calls, decisions |-> decisions,
                 results |-> results]
    /\ policy \in policies
    /\ \E setup \in setups :
          /\ next_route = setup.next_route
          /\ default_route = setup.default_route
          /\ input_path = setup.input_path
    /\ entry_id = UnknownId
    /\ adjacency = [n \in Nodes |-> {}]
    /\ reverse = [n \in Nodes |-> {}]
    /\ parent_counts = [n \in Nodes |-> 0]
    /\ parent_order = [n \in Nodes |-> <<>>]
    /\ dependency_counts = [n \in Nodes |-> 0]
    /\ edges_seen = 0
    /\ runs = 0
    /\ user_input = None
    /\ context = EmptyContext
    /\ steps0 = 0
    /\ ready = <<>>
    /\ remaining = [n \in Nodes |-> 0]
    /\ completed = {}
    /\ in_queue = {}
    /\ join_buffers = [n \in Nodes |-> <<>>]
    /\ last_output = None
    /\ node_id = UnknownId
    /\ input_payload = None
    /\ routing = NoRouting
    /\ retval = None
    /\ error = NoError

InitFull(setups, edges, calls, decisions, results, policies) ==
    InitFlow(setups, edges, calls, decisions, results, policies) /\ LibAtRest

\* no Flow is constructed
FlowAtRest == InitFlow({PlainNodes}, 0, 0, {NoRouting}, {"str"}, {DefaultPolicy})

\* callables that return plain values, under the default policy
InitWith(setups, edges, calls, decisions) ==
    InitFull(setups, edges, calls, decisions, {"str"}, {DefaultPolicy})

\* plain nodes whose callables may leave any routing decision
Init == InitWith({PlainNodes}, MaxEdges, MaxRuns, Decisions)
\* one node with next_route, default_route or input_path set, one Flow.run call
InitRoutes == InitWith(NodeSetups, MaxRouteEdges, 1, Decisions)
\* plain nodes whose callables leave no routing decision, several Flow.run calls
InitReuse == InitWith({PlainNodes}, MaxReuseEdges, MaxReuseRuns, {NoRouting})
\* plain nodes under a configured policy, one Flow.run call
InitPolicy == InitFull({PlainNodes}, MaxPolicyEdges, 1, Decisions, {"str"}, Policies)
\* plain nodes whose callables may return a Routing, one Flow.run call
InitResults ==
    InitFull({PlainNodes}, MaxResultEdges, 1, {NoRouting}, {"str", "routing"},
             {DefaultPolicy})

(***************************************************************************)
(* Flow.__init__                                                           *)
(***************************************************************************)
\* Flow.__init__ up to the loop over edges: the entry check, binding
FlowInitBegin(entry) ==
    /\ pc = "new"
    /\ IF entry \notin Nodes
       THEN /\ pc' = "init_failed"
            /\ error' = FlowError(UnknownId, {entry})
            /\ UNCHANGED entry_id
       ELSE /\ pc' = "init_edges"
            /\ entry_id' = entry
            /\ UNCHANGED error
    /\ UNCHANGED <<lib_vars, limits, node_vars, adjacency, reverse, parent_counts, parent_order,
                   dependency_counts, edges_seen, runs, user_input, context, steps0,
                   run_vars, retval>>

\* one iteration of the loop over edges
FlowInitEdge(src, dst) ==
    /\ pc = "init_edges"
    /\ edges_seen < limits.edges
    /\ edges_seen' = edges_seen + 1
    /\ IF src \notin Nodes \/ dst \notin Nodes
       THEN /\ pc' = "init_failed"
            /\ error' = FlowError(UnknownId, IF src \notin Nodes THEN {src} ELSE {dst})
            /\ UNCHANGED <<adjacency, reverse>>
       ELSE /\ adjacency' = [adjacency EXCEPT ![src] = @ \cup {dst}]
            /\ reverse' = [reverse EXCEPT ![dst] = @ \cup {src}]
            /\ UNCHANGED <<pc, error>>
    /\ UNCHANGED <<lib_vars, limits, node_vars, entry_id, parent_counts, parent_order,
                   dependency_counts, runs, user_input, context, steps0, run_vars,
                   retval>>

\* a mutant of FlowInitEnd: the parents are ordered by descending id
FlowInitEndDescending ==
    /\ pc = "init_edges"
    /\ parent_counts' = [n \in Nodes |-> Cardinality(reverse[n])]
    /\ parent_order' =
          [n \in Nodes |->
             [i \in 1..Cardinality(reverse[n]) |->
                Sorted(reverse[n])[Cardinality(reverse[n]) + 1 - i]]]
    /\ dependency_counts' = [n \in Nodes |-> Cardinality(reverse[n])]
    /\ pc' = "built"
    /\ UNCHANGED <<lib_vars, limits, node_vars, entry_id, adjacency, reverse, edges_seen,
                   runs, user_input, context, steps0, run_vars, retval, error>>
\* the edges iterable is exhausted: the derived maps
FlowInitEnd ==
    /\ pc = "init_edges"
    /\ parent_counts' = [n \in Nodes |-> Cardinality(reverse[n])]
    /\ parent_order' = [n \in Nodes |-> Sorted(reverse[n])]
    /\ dependency_counts' = [n \in Nodes |-> Cardinality(reverse[n])]
    /\ pc' = "built"
    /\ UNCHANGED <<lib_vars, limits, node_vars, entry_id, adjacency, reverse, edges_seen, runs,
                   user_input, context, steps0, run_vars, retval, error>>

(***************************************************************************)
(* Flow.run                                                                *)
(***************************************************************************)
\* _get_from_path(context, node._input_path)
GetFromPath(ctx, path) ==
    IF path = NoPath THEN None ELSE Get(ctx.payloads, path)

\* a mutant of RunBegin: the remaining counters and the completed set are
\* kept from the run before
RunBeginStale(ctx) ==
    /\ pc \in {"built", "returned", "raised"}
    /\ runs < limits.runs
    /\ ctx \in CallerContexts \/ (pc # "built" /\ ctx = context)
    /\ runs' = runs + 1
    /\ user_input' = UserInputOf(runs + 1)
    /\ context' =
          [ctx EXCEPT !.payloads[entry_id] = IF @ = Absent THEN UserInputOf(runs + 1) ELSE @]
    /\ steps0' = Len(ctx.steps)
    /\ ready' = <<entry_id>>
    /\ remaining' = IF runs = 0 THEN dependency_counts ELSE remaining
    /\ completed' = completed
    /\ in_queue' = {entry_id}
    /\ join_buffers' = [n \in Nodes |-> <<>>]
    /\ last_output' = None
    /\ retval' = None
    /\ error' = NoError
    /\ pc' = "loop"
    /\ UNCHANGED <<lib_vars, limits, node_vars, flow_vars, edges_seen, node_id, input_payload,
                   routing>>

\* Flow.run up to the loop: the context defaults, the entry payload, the
\* scheduler state.  The caller passes a context built by hand or the context
\* of the previous run.
RunBegin(ctx) ==
    /\ pc \in {"built", "returned", "raised"}
    /\ runs < limits.runs
    /\ ctx \in CallerContexts \/ (pc # "built" /\ ctx = context)
    /\ runs' = runs + 1
    /\ user_input' = UserInputOf(runs + 1)
    /\ context' =
          [ctx EXCEPT !.payloads[entry_id] = IF @ = Absent THEN UserInputOf(runs + 1) ELSE @]
    /\ steps0' = Len(ctx.steps)
    /\ ready' = <<entry_id>>
    /\ remaining' = dependency_counts
    /\ completed' = {}
    /\ in_queue' = {entry_id}
    /\ join_buffers' = [n \in Nodes |-> <<>>]
    /\ last_output' = None
    /\ retval' = None
    /\ error' = NoError
    /\ pc' = "loop"
    /\ UNCHANGED <<lib_vars, limits, node_vars, flow_vars, edges_seen, node_id, input_payload,
                   routing>>

\* while ready: node_id = ready.popleft(); in_queue.discard(node_id)
Dequeue ==
    /\ pc = "loop"
    /\ ready # <<>>
    /\ node_id' = Head(ready)
    /\ ready' = Tail(ready)
    /\ in_queue' = in_queue \ {Head(ready)}
    /\ pc' = "dequeued"
    /\ UNCHANGED <<lib_vars, limits, node_vars, flow_vars, edges_seen, runs, user_input, context,
                   steps0, remaining, completed, join_buffers, last_output,
                   input_payload, routing, retval, error>>

\* the loop ends: return last_output
Return ==
    /\ pc = "loop"
    /\ ready = <<>>
    /\ retval' = last_output
    /\ pc' = "returned"
    /\ UNCHANGED <<lib_vars, limits, node_vars, flow_vars, edges_seen, runs, user_input, context,
                   steps0, run_vars, error>>

\* the dequeued node is skipped, put back, or started: the 'start' step and
\* the payload it is called with
Dispatch ==
    /\ pc = "dequeued"
    /\ IF node_id \in completed
       THEN /\ pc' = "loop"
            /\ UNCHANGED <<ready, in_queue, context, input_payload>>
       ELSE IF remaining[node_id] > 0
       THEN /\ ready' = Append(ready, node_id)
            /\ in_queue' = in_queue \cup {node_id}
            /\ pc' = "loop"
            /\ UNCHANGED <<context, input_payload>>
       ELSE /\ context' = [context EXCEPT !.steps = Append(@, Step(node_id, "start", ""))]
            /\ LET requested_payload == GetFromPath(context, input_path[node_id])
               IN input_payload' =
                     IF requested_payload # None THEN requested_payload
                     ELSE Get(context.payloads, node_id)
            /\ pc' = "called"
            /\ UNCHANGED <<ready, in_queue>>
    /\ UNCHANGED <<lib_vars, limits, node_vars, flow_vars, edges_seen, runs, user_input, steps0,
                   remaining, completed, join_buffers, last_output, node_id, routing,
                   retval, error>>

\* a mutant of RecordNodeError: the failure is not recorded
RecordNodeErrorNot(ctx, n, exc) == ctx
\* the except block of Flow.run up to the raise: the failure is recorded
RecordNodeError(ctx, n, exc) ==
    [ctx EXCEPT
       !.errors = Append(@, [node_id |-> n, exception |-> exc.type, message |-> "boom"]),
       !.failed_node_id = n,
       !.failed_exception_type = exc.type,
       !.failed_message = "boom",
       !.steps = Append(@, Step(n, "failed", "boom"))]

\* node.run raises: the except block of Flow.run
NodeRaises ==
    /\ pc = "called"
    /\ context' = RecordNodeError(context, node_id, RuntimeError(node_id))
    /\ error' = RuntimeError(node_id)
    /\ pc' = "raised"
    /\ UNCHANGED <<lib_vars, limits, node_vars, flow_vars, edges_seen, runs, user_input, steps0,
                   run_vars, retval>>

\* a mutant of Select: the routing decision is not looked at
SelectAllowed(n, decision, allowed) ==
    IF next_route[n] # NoRoute THEN [none |-> FALSE, selected |-> {next_route[n]}]
    ELSE [none |-> FALSE, selected |-> allowed]
\* a mutant of Select: a decision without a target is taken for no decision
SelectStopAsAbsent(n, decision, allowed) ==
    IF next_route[n] # NoRoute THEN [none |-> FALSE, selected |-> {next_route[n]}]
    ELSE IF decision # NoRouting /\ decision # Stop
    THEN [none |-> FALSE, selected |-> decision.t]
    ELSE [none |-> FALSE, selected |-> allowed]
\* Flow._resolve_successors, the choice of selected: next_route, else the
\* routing decision (none: return None), else every declared successor
Select(n, decision, allowed) ==
    IF next_route[n] # NoRoute THEN [none |-> FALSE, selected |-> {next_route[n]}]
    ELSE IF decision # NoRouting
    THEN IF decision = Stop THEN [none |-> TRUE, selected |-> {}]
         ELSE [none |-> FALSE, selected |-> decision.t]
    ELSE [none |-> FALSE, selected |-> allowed]

\* Flow._resolve_successors: the routing mapping after the pop, and the
\* outcome: None ("none"), a set ("set") or a FlowError ("error")
ResolveSuccessors(n, routings) ==
    LET allowed == adjacency[n]
        popped == [routings EXCEPT ![n] = NoRouting]
        choice == Select(n, routings[n], allowed)
        defaulted ==
            IF choice.selected = {} /\ default_route[n] # NoRoute THEN {default_route[n]}
            ELSE choice.selected
    IN  IF allowed = {}
        THEN [routings |-> routings, kind |-> "set", selected |-> {}]
        ELSE IF choice.none
        THEN [routings |-> popped, kind |-> "none", selected |-> {}]
        ELSE IF defaulted \ allowed # {}
        THEN [routings |-> popped, kind |-> "error", selected |-> defaulted \ allowed]
        ELSE [routings |-> popped, kind |-> "set", selected |-> defaulted]

\* a mutant of Decrement: the count is left as it is
DecrementNot(count) == count
\* a mutant of Decrement: the first parent to report releases the target
DecrementToZero(count) == 0
\* remaining[target] = max(0, remaining[target] - 1)
Decrement(count) == IF count - 1 > 0 THEN count - 1 ELSE 0

\* a mutant of Aggregate: the keys in the order the parents reported
AggregateAsReported(buffer, ordered_parents) == Dict(buffer)
\* aggregated: the buffered outputs in the order of ordered_parents
Aggregate(buffer, ordered_parents) ==
    Dict([i \in 1..Len(ordered_parents) |->
            <<ordered_parents[i], DictGet(buffer, ordered_parents[i])>>])

\* a mutant of Deliver: the target always gets the last parent's output
DeliverOutput(payloads, target, parent_count, full, aggregated, output_value) ==
    [payloads EXCEPT ![target] = output_value]
\* context["payloads"][target] after one parent has reported
Deliver(payloads, target, parent_count, full, aggregated, output_value) ==
    IF parent_count > 1
    THEN IF full THEN [payloads EXCEPT ![target] = aggregated] ELSE payloads
    ELSE [payloads EXCEPT ![target] = output_value]

\* a mutant of ShouldEnqueue: every notified target is appended
ShouldEnqueueAlways(count, target, done, queued) == TRUE
\* remaining[target] == 0 and target not in completed and target not in in_queue
ShouldEnqueue(count, target, done, queued) ==
    count = 0 /\ target \notin done /\ target \notin queued

\* the body of 'for target in successors' for one target, on the record st of
\* what the loop updates
Notify(st, target, parent, output_value) ==
    LET rem == [st.remaining EXCEPT ![target] = Decrement(@)]
        parent_count == parent_counts[target]
        join_entry ==
            DictSet(IF st.joins[target] = Absent THEN <<>> ELSE st.joins[target].m,
                    parent, output_value.s)
        buffer == DictSet(st.join_buffers[target], parent, output_value.s)
        full == Len(buffer) = parent_count
        aggregated == Aggregate(buffer, parent_order[target])
        enqueue == ShouldEnqueue(rem[target], target, st.completed, st.in_queue)
    IN  [remaining |-> rem,
         completed |-> st.completed,
         joins |->
            IF parent_count > 1
            THEN [st.joins EXCEPT ![target] = IF full THEN aggregated ELSE Dict(join_entry)]
            ELSE st.joins,
         join_buffers |->
            IF parent_count > 1
            THEN [st.join_buffers EXCEPT ![target] = IF full THEN <<>> ELSE buffer]
            ELSE st.join_buffers,
         payloads |->
            Deliver(st.payloads, target, parent_count, full, aggregated, output_value),
         ready |-> IF enqueue THEN Append(st.ready, target) ELSE st.ready,
         in_queue |-> IF enqueue THEN st.in_queue \cup {target} ELSE st.in_queue]

\* 'for target in successors' over the targets in the order the set yields them
RECURSIVE NotifyAll(_, _, _, _)
NotifyAll(st, order, parent, output_value) ==
    IF order = <<>> THEN st
    ELSE NotifyAll(Notify(st, Head(order), parent, output_value), Tail(order),
                   parent, output_value)

\* node.run returns (FunctionNode.run): the callable returned result,
\* OutputOf(node_id) or a Routing instance, possibly after leaving a routing
\* decision in the context, and the result is recorded as the output
NodeReturns(decision, result) ==
    /\ pc = "called"
    /\ decision \in limits.decisions
    /\ result \in {OutputOf(node_id), RoutingResult}
    /\ result.k \in limits.results
    /\ context' =
          [context EXCEPT
             !.payloads[node_id] = result,
             !.routing[node_id] = IF decision = NoRouting THEN @ ELSE decision]
    /\ pc' = "ran"
    /\ UNCHANGED <<lib_vars, limits, node_vars, flow_vars, edges_seen, runs, user_input, steps0,
                   run_vars, retval, error>>

\* Flow.run after node.run has returned: the 'success' step, the successors
\* and their notification
Advance(order) ==
    /\ pc = "ran"
    /\ LET output_value == Get(context.payloads, node_id)
           successors == ResolveSuccessors(node_id, context.routing)
           ran == [context EXCEPT
                     !.steps = Append(@, Step(node_id, "success", "")),
                     !.routing = successors.routings]
           st == NotifyAll(
                    [remaining |-> remaining, completed |-> completed \cup {node_id},
                     joins |-> ran.joins, join_buffers |-> join_buffers,
                     payloads |-> ran.payloads, ready |-> ready, in_queue |-> in_queue],
                    order, node_id, output_value)
       IN  /\ last_output' = output_value
           /\ completed' = completed \cup {node_id}
           /\ routing' = IF adjacency[node_id] = {} THEN routing
                         ELSE context.routing[node_id]
           /\ IF successors.kind = "error"
              THEN /\ order = <<>>
                   /\ context' = ran
                   /\ error' = FlowError(node_id, successors.selected)
                   /\ pc' = "raised"
                   /\ UNCHANGED <<remaining, join_buffers, ready, in_queue>>
              ELSE /\ order \in Orders(successors.selected)
                   /\ context' = [ran EXCEPT !.joins = st.joins, !.payloads = st.payloads]
                   /\ remaining' = st.remaining
                   /\ join_buffers' = st.join_buffers
                   /\ ready' = st.ready
                   /\ in_queue' = st.in_queue
                   /\ pc' = "loop"
                   /\ UNCHANGED error
    /\ UNCHANGED <<lib_vars, limits, node_vars, flow_vars, edges_seen, runs, user_input, steps0,
                   node_id, input_payload, retval>>

Next ==
    \/ \E entry \in Ids : FlowInitBegin(entry)
    \/ \E src, dst \in Ids : FlowInitEdge(src, dst)
    \/ FlowInitEnd
    \/ \E ctx \in CallerContexts \cup {context} : RunBegin(ctx)
    \/ Dequeue
    \/ Dispatch
    \/ NodeRaises
    \/ \E decision \in Decisions, result \in {OutputOf(n) : n \in Nodes} \cup {RoutingResult} :
          NodeReturns(decision, result)
    \/ \E order \in UNION {Orders(S) : S \in SUBSET Nodes} : Advance(order)
    \/ Return

Spec == Init /\ [][Next]_vars

\* the scheduler runs to its end: every step of the loop is eventually taken
FairSpec == Spec /\ WF_vars(Next)

SpecRoutes == InitRoutes /\ [][Next]_vars

SpecReuse == InitReuse /\ [][Next]_vars

SpecPolicy == InitPolicy /\ [][Next]_vars

SpecResults == InitResults /\ [][Next]_vars

(***************************************************************************)
(* What the claims speak of.                                               *)
(***************************************************************************)
\* Flow.run is executing
Running == pc \in {"loop", "dequeued", "called", "ran"}
\* the steps appended by the current run
RunSteps == SubSeq(context.steps, steps0 + 1, Len(context.steps))
\* positions in RunSteps of the steps of node n with the given status
StepsOf(n, status) ==
    {i \in 1..Len(RunSteps) : RunSteps[i].node_id = n /\ RunSteps[i].status = status}
\* the nodes reachable from n along declared edges, n included
RECURSIVE ReachFrom(_, _)
ReachFrom(seen, frontier) ==
    IF frontier = {} THEN seen
    ELSE LET next == (UNION {adjacency[x] : x \in frontier}) \ (seen \cup frontier)
         IN ReachFrom(seen \cup frontier, next)
Reachable(n) == ReachFrom({}, {n})
\* the nodes from which n is reached along one declared edge or more
Ancestors(n) == {a \in Nodes : \E b \in adjacency[a] : n \in Reachable(b)}
\* the graph has no cycle, self-edges included
Acyclic == \A n \in Nodes : n \notin Ancestors(n)
NoSelfEdges == \A n \in Nodes : n \notin adjacency[n]

(***************************************************************************)
(* C1: Flow.run terminates for every flow the constructor accepts: a run   *)
(* that has begun eventually returns or raises.                            *)
(***************************************************************************)
C1_RunTerminates == Running ~> (pc \in {"returned", "raised"})

(***************************************************************************)
(* C2: the value Flow.run returns on success is the context mapping the    *)
(* caller passed in.                                                       *)
(***************************************************************************)
C2_ReturnsContext == pc = "returned" => retval = ContextRef

(***************************************************************************)
(* C3: when the first node of a run starts, context.payloads[entry] is the *)
(* user_input of that run, whatever context was passed in.                 *)
(***************************************************************************)
C3_EntryPayloadIsUserInput ==
    (pc = "called" /\ Len(RunSteps) = 1) => context.payloads[entry_id] = user_input

(***************************************************************************)
(* C4: in a run over a graph without cycles in which no node fails and     *)
(* every node broadcasts, every node reachable from the entry has executed *)
(* exactly once when run returns.                                          *)
(***************************************************************************)
\* no callable leaves a routing decision, no node has a next_route
Broadcast ==
    /\ limits.decisions = {NoRouting}
    /\ \A n \in Nodes : next_route[n] = NoRoute /\ context.routing[n] = NoRouting
C4_ReachableRunOnce ==
    (pc = "returned" /\ Acyclic /\ Broadcast)
        => \A n \in Reachable(entry_id) : Cardinality(StepsOf(n, "start")) = 1

\* C4 as amended: the same for every node reachable from the entry all of whose
\* ancestors are reachable from the entry too
Covered(n) == n \in Reachable(entry_id) /\ Ancestors(n) \subseteq Reachable(entry_id)
C4_CoveredRunOnce ==
    (pc = "returned" /\ Acyclic /\ Broadcast)
        => \A n \in Nodes : Covered(n) => Cardinality(StepsOf(n, "start")) = 1
C4_Witness ==
    /\ pc = "returned" /\ Acyclic /\ Broadcast
    /\ \A n \in Nodes : Covered(n)
    /\ \E n \in Nodes : parent_counts[n] = 2

(***************************************************************************)
(* C5: within one run over a graph without self-edges no node is executed  *)
(* more than once: no node has two 'start' steps, no node is queued twice, *)
(* and no completed node is queued or dequeued.                            *)
(***************************************************************************)
C5_AtMostOnce ==
    ((Running \/ pc \in {"returned", "raised"}) /\ NoSelfEdges)
        => /\ \A n \in Nodes : Cardinality(StepsOf(n, "start")) <= 1
           /\ \A i, j \in 1..Len(ready) : i # j => ready[i] # ready[j]
           /\ \A i \in 1..Len(ready) : ready[i] \notin completed
           /\ pc = "dequeued" => node_id \notin completed
C5_Witness ==
    /\ pc = "returned" /\ NoSelfEdges
    /\ completed = Nodes
    /\ routing # NoRouting
    /\ \E n \in Nodes : parent_counts[n] = 2

(***************************************************************************)
(* C6: a node with more than one parent starts only after all its parents  *)
(* have completed and reported; context.joins of the node then maps every  *)
(* parent to that parent's output, and without an input_path that mapping  *)
(* is the payload the node is called with.                                 *)
(***************************************************************************)
C6_JoinInput ==
    (pc = "called" /\ parent_counts[node_id] > 1)
        => /\ \A p \in reverse[node_id] : p \in completed /\ StepsOf(p, "success") # {}
           /\ context.joins[node_id].k = "dict"
           /\ AsMapping(context.joins[node_id].m)
                 = {<<p, OutputOf(p).s>> : p \in reverse[node_id]}
           /\ input_path[node_id] = NoPath => input_payload = context.joins[node_id]
C6_Witness == pc = "called" /\ parent_counts[node_id] = 2

(***************************************************************************)
(* C7: once all the parents of a node with several parents have reported   *)
(* in the run, the keys of its aggregate, in joins[s] and payloads[s], are *)
(* in the sorted order of the parent ids, whatever the order in which the  *)
(* parents completed.                                                      *)
(***************************************************************************)
C7_JoinKeyOrder ==
    \A s \in Nodes :
        parent_counts[s] > 1
            => /\ (runs > 0 /\ remaining[s] = 0)
                  => /\ context.joins[s].k = "dict"
                     /\ KeyOrder(context.joins[s].m) = Sorted(reverse[s])
               /\ context.payloads[s].k = "dict"
                  => KeyOrder(context.payloads[s].m) = Sorted(reverse[s])
\* a complete aggregate whose parents completed in descending order of id
C7_Witness ==
    \E s \in Nodes :
        /\ parent_counts[s] = 2
        /\ context.payloads[s].k = "dict"
        /\ context.joins[s] = context.payloads[s]
        /\ \E p, q \in reverse[s] :
              /\ p < q
              /\ \E i \in StepsOf(p, "success"), j \in StepsOf(q, "success") : j < i

(***************************************************************************)
(* C8: every 'start' step of a run comes after the 'success' step of every *)
(* declared parent of the started node.                                    *)
(***************************************************************************)
C8_ParentsEndFirst ==
    \A i \in 1..Len(RunSteps) :
        RunSteps[i].status = "start"
            => \A p \in reverse[RunSteps[i].node_id] :
                  \E j \in 1..(i - 1) :
                      RunSteps[j].node_id = p /\ RunSteps[j].status = "success"
C8_Witness ==
    /\ pc = "called"
    /\ Len(RunSteps) = 5
    /\ parent_counts[node_id] = 2

(***************************************************************************)
(* What C9 and C10 say of a declared successor that is passed over.        *)
(***************************************************************************)
\* the nodes in the ready queue
Queued(queue) == {queue[i] : i \in 1..Len(queue)}
\* node s is left as it was by the step
Untouched(s) ==
    /\ remaining'[s] = remaining[s]
    /\ context'.payloads[s] = context.payloads[s]
    /\ context'.joins[s] = context.joins[s]
    /\ join_buffers'[s] = join_buffers[s]
    /\ s \in Queued(ready') <=> s \in Queued(ready)
\* a node whose only parent has completed without notifying it stays so for
\* the rest of the run
PassedOverStays ==
    \A s \in Nodes :
        (Running /\ runs' = runs /\ remaining[s] > 0
            /\ \E p \in completed : reverse[s] = {p})
            => remaining'[s] = remaining[s]
\* a node whose only parent has not notified it has no step in the run
OnlyChildWaits ==
    \A s \in Nodes :
        (remaining[s] > 0 /\ \E p \in Nodes : reverse[s] = {p})
            => \A i \in 1..Len(RunSteps) : RunSteps[i].node_id # s

(***************************************************************************)
(* C9: a node without next_route completes with a routing decision naming  *)
(* one id or a list of ids, all declared successors: exactly the named     *)
(* successors are notified (count decremented, payload delivered, enqueued *)
(* when the count reaches 0); the other declared successors are left as    *)
(* they were and, with no other parent, never execute in the run.          *)
(***************************************************************************)
\* the node that has just run left a decision naming declared successors
NamesSuccessors ==
    /\ pc = "ran"
    /\ next_route[node_id] = NoRoute
    /\ context.routing[node_id].k \in {"one", "many"}
    /\ context.routing[node_id].t \subseteq adjacency[node_id]
\* exactly the nodes of named are notified by the step
NotifiesExactly(named) ==
    /\ pc' = "loop"
    /\ \A s \in Nodes \ named : Untouched(s)
    /\ \A s \in named :
          /\ remaining'[s] = IF remaining[s] > 0 THEN remaining[s] - 1 ELSE 0
          /\ IF parent_counts[s] > 1
             THEN <<node_id, OutputOf(node_id).s>> \in
                     AsMapping(join_buffers'[s]) \cup AsMapping(context'.payloads[s].m)
             ELSE context'.payloads[s] = OutputOf(node_id)
          /\ (remaining'[s] = 0 /\ s \notin completed') => s \in Queued(ready')
          /\ remaining'[s] > 0 => (s \in Queued(ready') <=> s \in Queued(ready))
C9_NamedOnly ==
    /\ [][NamesSuccessors => NotifiesExactly(context.routing[node_id].t)]_vars
    /\ [][PassedOverStays]_vars
    /\ []OnlyChildWaits

\* C9 as amended: the decision names at least one successor, or the node has
\* no default_route
C9_NamedOnlyNonEmpty ==
    /\ [][(NamesSuccessors
            /\ (context.routing[node_id].t # {} \/ default_route[node_id] = NoRoute))
           => NotifiesExactly(context.routing[node_id].t)]_vars
    /\ [][PassedOverStays]_vars
    /\ []OnlyChildWaits
\* the last node to run named one of its two declared successors, which is
\* queued; the other one has no other parent
C9_Witness ==
    /\ pc = "loop"
    /\ node_id \in completed
    /\ next_route[node_id] = NoRoute
    /\ routing.k = "one"
    /\ routing.t \subseteq adjacency[node_id]
    /\ ready = Sorted(routing.t)
    /\ \E s \in adjacency[node_id] \ routing.t :
          reverse[s] = {node_id} /\ remaining[s] > 0

(***************************************************************************)
(* C10: a node with no next_route and no default_route completes with a    *)
(* routing decision without a target: the branch ends.  The remaining      *)
(* counts, payloads and joins of its declared successors are unchanged,    *)
(* none is enqueued, and a successor with no other parent has no step.     *)
(***************************************************************************)
StopsBranch ==
    /\ pc = "ran"
    /\ next_route[node_id] = NoRoute
    /\ default_route[node_id] = NoRoute
    /\ context.routing[node_id] = Stop
C10_StopEndsBranch ==
    /\ [][StopsBranch
           => /\ pc' = "loop"
              /\ ready' = ready
              /\ \A s \in adjacency[node_id] : Untouched(s)]_vars
    /\ [][PassedOverStays]_vars
    /\ []OnlyChildWaits
\* the entry stopped the branch: the run returns with its successors waiting
C10_Witness ==
    /\ pc = "returned"
    /\ routing = Stop
    /\ completed = {entry_id}
    /\ next_route[entry_id] = NoRoute
    /\ default_route[entry_id] = NoRoute
    /\ \E s \in adjacency[entry_id] : reverse[s] = {entry_id} /\ remaining[s] > 0
    /\ Len(RunSteps) = 2

(***************************************************************************)
(* C11: for every node, with declared successors or without, a routing     *)
(* decision, next_route or default_route that selects an id outside        *)
(* adjacency[node] makes Flow.run fail with a FlowError naming the         *)
(* offending ids, and no selected successor is enqueued.                   *)
(***************************************************************************)
\* the ids outside adjacency[n] that node n, which has just run, selects
Offending(n) ==
    LET choice == Select(n, context.routing[n], adjacency[n])
        defaulted ==
            IF choice.selected = {} /\ default_route[n] # NoRoute THEN {default_route[n]}
            ELSE choice.selected
    IN  IF choice.none THEN {} ELSE defaulted \ adjacency[n]
C11_InvalidSelectionFails ==
    [][(pc = "ran" /\ Offending(node_id) # {})
          => /\ pc' = "raised"
             /\ error' = FlowError(node_id, Offending(node_id))
             /\ ready' = ready]_vars

(***************************************************************************)
(* C12: routing decisions stay in the context as an audit trail: a         *)
(* decision a node has left in context.routing, a stop decision included,  *)
(* is still there with the same value after every later step of the run,   *)
(* so also when Flow.run returns; resolving the successors of the node     *)
(* does not remove it.                                                     *)
(***************************************************************************)
C12_RoutingKept ==
    [][Running
          => \A n \in Nodes :
                (context.routing[n] # NoRouting /\ ~(pc = "called" /\ n = node_id))
                   => context'.routing[n] = context.routing[n]]_vars

(***************************************************************************)
(* C13: when node.run raises and the on-error action is stop, then as the  *)
(* error leaves Flow.run the context has gained one errors record for the  *)
(* node, failed_node_id / failed_exception_type / failed_message describe  *)
(* the same failure, a 'failed' step of the node is the last step, no      *)
(* other node has been started since, and the error is the original one.   *)
(***************************************************************************)
C13_StopRecordsFailure ==
    /\ [][(pc = "called" /\ policy.on_error.action = "stop" /\ pc' = "raised")
             => /\ context'.errors =
                      Append(context.errors,
                             [node_id |-> node_id, exception |-> "RuntimeError",
                              message |-> "boom"])
                /\ context'.failed_node_id = node_id
                /\ context'.failed_exception_type = "RuntimeError"
                /\ context'.failed_message = "boom"
                /\ context'.steps = Append(context.steps, Step(node_id, "failed", "boom"))
                /\ error' = RuntimeError(node_id)]_vars
    /\ [](pc = "raised" /\ error.type = "RuntimeError" /\ policy.on_error.action = "stop"
             => /\ RunSteps # <<>>
                /\ RunSteps[Len(RunSteps)] = Step(error.node, "failed", "boom")
                /\ StepsOf(error.node, "start") = {Len(RunSteps) - 1})
\* under a stop policy, a node other than the entry has raised
C13_Witness ==
    /\ pc = "raised"
    /\ error.type = "RuntimeError"
    /\ policy.on_error.action = "stop"
    /\ error.node # entry_id
    /\ context.failed_node_id = error.node
    /\ Len(context.errors) = 1

(***************************************************************************)
(* C14: whenever an error leaves Flow.run, a node exception or a routing   *)
(* error raised while resolving successors, the failure is by then in      *)
(* context.errors, in failed_node_id / failed_exception_type /             *)
(* failed_message and in steps.                                            *)
(***************************************************************************)
C14_ErrorsRecorded ==
    pc = "raised"
        => /\ context.errors # <<>>
           /\ context.errors[Len(context.errors)].node_id = error.node
           /\ context.errors[Len(context.errors)].exception = error.type
           /\ context.failed_node_id = error.node
           /\ context.failed_exception_type = error.type
           /\ StepsOf(error.node, "failed") # {}

(***************************************************************************)
(* C15: a node that raises on every attempt is attempted exactly           *)
(* max(1, retry.max_attempts) times before the on-error mapping is         *)
(* applied; a node that succeeds is attempted at most that many times, and *)
(* then its output is in payloads and it has a 'success' step.             *)
(***************************************************************************)
\* the calls of node.run for node n in the current run: Flow.run appends one
\* 'start' step before each
Attempts(n) == Cardinality(StepsOf(n, "start"))
\* the attempts cap of the configured policy, the first try included
AttemptsCap == IF policy.retry.max_attempts > 1 THEN policy.retry.max_attempts ELSE 1
C15_RetryBound ==
    /\ (pc = "raised" /\ error.type = "RuntimeError")
          => Attempts(error.node) = AttemptsCap
    /\ \A n \in Nodes :
          (runs > 0 /\ n \in completed)
             => /\ Attempts(n) \in 1..AttemptsCap
                /\ StepsOf(n, "success") # {}
                /\ context.payloads[n] # Absent

(***************************************************************************)
(* C16: when a node fails with its retries exhausted and the on-error      *)
(* action is continue, Flow.run does not raise: the failure is recorded    *)
(* (errors entry, 'failed' step), a 'continue' step follows, the node is   *)
(* completed with a null payload and its dependents are released as after  *)
(* a success.                                                              *)
(***************************************************************************)
\* the call of node.run for the current node did not return: its last
\* permitted attempt raised
LastAttemptRaises == pc = "called" /\ pc' # "ran" /\ Attempts(node_id) >= AttemptsCap
\* the failure of the current node is recorded, followed by a step of the
\* given status
FailureRecorded(status) ==
    /\ context'.errors =
          Append(context.errors,
                 [node_id |-> node_id, exception |-> "RuntimeError", message |-> "boom"])
    /\ context'.steps =
          context.steps \o <<Step(node_id, "failed", "boom"), Step(node_id, status, "")>>
C16_ContinueMovesOn ==
    [][(LastAttemptRaises /\ policy.on_error.action = "continue")
          => /\ pc' = "loop"
             /\ error' = NoError
             /\ FailureRecorded("continue")
             /\ completed' = completed \cup {node_id}
             /\ context'.payloads[node_id] = None
             /\ \A s \in adjacency[node_id] :
                   /\ remaining'[s] = IF remaining[s] > 0 THEN remaining[s] - 1 ELSE 0
                   /\ (remaining'[s] = 0 /\ s \notin completed') => s \in Queued(ready')]_vars

(***************************************************************************)
(* C17: when a node fails with its retries exhausted and the on-error      *)
(* action is goto with a target T of the graph, Flow.run does not raise:   *)
(* the failure is recorded, a 'goto' step follows, and T is the only node  *)
(* scheduled from it, whatever its declared edges and routing decision; T  *)
(* is given a null payload.                                                *)
(***************************************************************************)
C17_GotoForcesTarget ==
    [][(LastAttemptRaises /\ policy.on_error.action = "goto"
           /\ policy.on_error.target \in Nodes)
          => /\ pc' = "loop"
             /\ error' = NoError
             /\ FailureRecorded("goto")
             /\ completed' = completed \cup {node_id}
             /\ Queued(ready') = Queued(ready) \cup {policy.on_error.target}
             /\ context'.payloads[policy.on_error.target] = None]_vars

(***************************************************************************)
(* C18: a function node whose callable returns a Routing is a              *)
(* configuration error: Flow.run fails with a FlowError at that node, the  *)
(* Routing is never stored as a payload and no successor of the node is    *)
(* executed.                                                               *)
(***************************************************************************)
C18_RoutingResultRejected ==
    /\ [](\A n \in Nodes : context.payloads[n] # RoutingResult)
    /\ [](\A n \in Nodes : input_payload # RoutingResult)
    /\ [][(\E decision \in Decisions : NodeReturns(decision, RoutingResult))
             => /\ pc' = "raised"
                /\ error'.type = "FlowError"
                /\ error'.node = node_id]_vars

(***************************************************************************)
(* C19: the constructor rejects cycles: a Flow cannot be built from an     *)
(* edge set with a directed cycle of length two or more (A >> B with       *)
(* B >> A); only self-edges are accepted as cycles.                        *)
(***************************************************************************)
\* Flow.__init__ has returned a Flow
Built == pc \notin {"new", "init_edges", "init_failed"}
\* the declared edges hold a directed cycle through two nodes or more
LongCycle == \E a, b \in Nodes : a # b /\ b \in Reachable(a) /\ a \in Reachable(b)
C19_CyclesRejected == Built => ~LongCycle

(***************************************************************************)
(* C20: the constructor validates default_route: a Flow cannot be built,   *)
(* and so no node runs, when the default_route of some node is not one of  *)
(* the declared successors of that node.                                   *)
(***************************************************************************)
C20_DefaultRouteDeclared ==
    Built => \A n \in Nodes :
                default_route[n] # NoRoute => default_route[n] \in adjacency[n]

(***************************************************************************)
(* Flow.from_dsl and the edge expressions.  A string is the sequence of    *)
(* its characters.                                                         *)
(***************************************************************************)
\* the most terms a group of an edge expression holds
MaxGroup == 2

\* str.strip()
RECURSIVE LStrip(_)
LStrip(text) == IF text # <<>> /\ Head(text) = " " THEN LStrip(Tail(text)) ELSE text
RECURSIVE RStrip(_)
RStrip(text) ==
    IF text # <<>> /\ text[Len(text)] = " " THEN RStrip(SubSeq(text, 1, Len(text) - 1))
    ELSE text
Strip(text) == RStrip(LStrip(text))
\* where sub occurs in text, and the 'in' operator on strings
Occurrences(text, sub) ==
    {i \in 1..(Len(text) - Len(sub) + 1) : SubSeq(text, i, i + Len(sub) - 1) = sub}
Contains(text, sub) == Occurrences(text, sub) # {}
First(positions) == CHOOSE i \in positions : \A j \in positions : i <= j
\* str.split(sep, 1) for a text that contains sep
SplitOnce(text, sep) ==
    LET i == First(Occurrences(text, sep))
    IN <<SubSeq(text, 1, i - 1), SubSeq(text, i + Len(sep), Len(text))>>
\* str.split(sep)
RECURSIVE Split(_, _)
Split(text, sep) ==
    IF ~Contains(text, sep) THEN <<text>>
    ELSE <<SplitOnce(text, sep)[1]>> \o Split(SplitOnce(text, sep)[2], sep)
\* str.replace("&", "|")
ReplaceAmpersand(text) == [i \in 1..Len(text) |-> IF text[i] = "&" THEN "|" ELSE text[i]]

\* a FlowError of the parser: its text and the expression it quotes, if any
ParseError(text, quoted) == [raised |-> TRUE, message |-> [text |-> text, quoted |-> quoted],
                             terms |-> <<>>, edges |-> <<>>]
NonEmpty(term) == term # <<>>

\* a mutant of SplitTerms: only '|' separates the terms of a group
SplitTermsOnBar(segment) ==
    LET stripped == Strip(segment)
        inner == IF stripped # <<>> /\ Head(stripped) = "(" /\ stripped[Len(stripped)] = ")"
                 THEN SubSeq(stripped, 2, Len(stripped) - 1)
                 ELSE stripped
        terms == LET pieces == Split(inner, <<"|">>)
                 IN [i \in 1..Len(pieces) |-> Strip(pieces[i])]
    IN  IF inner = <<>> THEN ParseError("Empty segment in edge expression", <<>>)
        ELSE [raised |-> FALSE, message |-> [text |-> "", quoted |-> <<>>],
              terms |-> SelectSeq(terms, NonEmpty), edges |-> <<>>]
\* Flow._split_terms
SplitTerms(segment) ==
    LET stripped == Strip(segment)
        inner == IF stripped # <<>> /\ Head(stripped) = "(" /\ stripped[Len(stripped)] = ")"
                 THEN SubSeq(stripped, 2, Len(stripped) - 1)
                 ELSE stripped
        terms == LET pieces == Split(ReplaceAmpersand(inner), <<"|">>)
                 IN [i \in 1..Len(pieces) |-> Strip(pieces[i])]
    IN  IF inner = <<>> THEN ParseError("Empty segment in edge expression", <<>>)
        ELSE [raised |-> FALSE, message |-> [text |-> "", quoted |-> <<>>],
              terms |-> SelectSeq(terms, NonEmpty), edges |-> <<>>]

\* Flow._parse_edge_expression
ParseEdgeExpression(expr) ==
    LET text == Strip(expr)
        sides == SplitOnce(text, <<">", ">">>)
        sources == SplitTerms(sides[1])
        targets == SplitTerms(sides[2])
        n == Len(targets.terms)
    IN  IF Contains(text, <<"<", "<">>)
        THEN ParseError("Invalid edge expression", <<expr>>)
        ELSE IF ~Contains(text, <<">", ">">>)
        THEN ParseError("Edge expression must contain '>>'", <<expr>>)
        ELSE IF sources.raised THEN sources
        ELSE IF targets.raised THEN targets
        ELSE [raised |-> FALSE, message |-> [text |-> "", quoted |-> <<>>], terms |-> <<>>,
              edges |-> [k \in 1..(Len(sources.terms) * n) |->
                           <<sources.terms[((k - 1) \div n) + 1],
                             targets.terms[((k - 1) % n) + 1]>>]]

\* the terms of the expressions that are parsed: two ids and the empty term
TermIds == {<<"A">>, <<"B">>}
Terms == TermIds \cup {<<>>}
\* one side of '>>': a bare term, or a group of up to MaxGroup terms between
\* parentheses, separated by '|' or by '&'
Sides ==
    {[grouped |-> FALSE, terms |-> <<t>>, sep |-> "|"] : t \in Terms}
        \cup UNION {{[grouped |-> TRUE, terms |-> ts, sep |-> sp] :
                        sp \in IF Len(ts) < 2 THEN {"|"} ELSE {"|", "&"}} :
                    ts \in UNION {[1..n -> Terms] : n \in 0..MaxGroup}}
RECURSIVE Join(_, _)
Join(terms, sep) ==
    IF terms = <<>> THEN <<>>
    ELSE IF Len(terms) = 1 THEN terms[1]
    ELSE terms[1] \o sep \o Join(Tail(terms), sep)
\* the text of a side and of an expression, written tight or with spaces
SideText(side, spaced) ==
    IF ~side.grouped THEN side.terms[1]
    ELSE <<"(">> \o Join(side.terms, IF spaced THEN <<" ", side.sep, " ">> ELSE <<side.sep>>)
                 \o <<")">>
ExprText(left, right, spaced) ==
    SideText(left, spaced)
        \o (IF spaced THEN <<" ", ">", ">", " ">> ELSE <<">", ">">>)
        \o SideText(right, spaced)

\* an edge expression is handed to Flow.from_dsl
InitDsl ==
    /\ FlowAtRest
    /\ runtime = AtRest
    /\ \E left \in Sides, right \in Sides, spaced \in BOOLEAN :
          dsl = [left |-> left, right |-> right, spaced |-> spaced,
                 expr |-> ExprText(left, right, spaced), done |-> FALSE,
                 parse |-> [raised |-> FALSE, message |-> [text |-> "", quoted |-> <<>>],
                            terms |-> <<>>, edges |-> <<>>]]
    /\ binding = AtRest
    /\ resolver = AtRest
    /\ merging = AtRest
    /\ validating = AtRest
    /\ tracker = AtRest

\* Flow.from_dsl expands the expression
FromDsl ==
    /\ ~dsl.done
    /\ dsl' = [dsl EXCEPT !.done = TRUE, !.parse = ParseEdgeExpression(dsl.expr)]
    /\ UNCHANGED <<core_vars, runtime, binding, resolver, merging, validating, tracker>>

NextDsl == FromDsl

SpecDsl == InitDsl /\ [][NextDsl]_vars

(***************************************************************************)
(* C21: for an edge expression whose sides are an id or a parenthesised    *)
(* group of ids, the parsed edge set is the union of the parses of the     *)
(* single edges 'a >> b', a from the left side and b from the right, and   *)
(* it is the same whether the groups are written with '|' or with '&'.     *)
(***************************************************************************)
\* the side is an id or a group of ids
IdsOnly(side) ==
    side.terms # <<>> /\ \A i \in 1..Len(side.terms) : side.terms[i] \in TermIds
EdgeSet(parse) == {parse.edges[i] : i \in 1..Len(parse.edges)}
TermsOf(side) == {side.terms[i] : i \in 1..Len(side.terms)}
\* the side written with the other separator
Flipped(side) == [side EXCEPT !.sep = IF @ = "|" THEN "&" ELSE "|"]
C21_ParseIsUnion ==
    (dsl.done /\ IdsOnly(dsl.left) /\ IdsOnly(dsl.right))
        => /\ ~dsl.parse.raised
           /\ EdgeSet(dsl.parse) =
                 UNION {EdgeSet(ParseEdgeExpression(a \o <<" ", ">", ">", " ">> \o b)) :
                           a \in TermsOf(dsl.left), b \in TermsOf(dsl.right)}
           /\ EdgeSet(dsl.parse) = TermsOf(dsl.left) \X TermsOf(dsl.right)
           /\ EdgeSet(dsl.parse) =
                 EdgeSet(ParseEdgeExpression(
                            ExprText(Flipped(dsl.left), Flipped(dsl.right), dsl.spaced)))
\* '(A & B) >> (B & A)' has been parsed
C21_Witness ==
    /\ dsl.done
    /\ dsl.left = [grouped |-> TRUE, terms |-> <<<<"A">>, <<"B">>>>, sep |-> "&"]
    /\ dsl.right = [grouped |-> TRUE, terms |-> <<<<"B">>, <<"A">>>>, sep |-> "&"]
    /\ Len(dsl.parse.edges) = 4

(***************************************************************************)
(* C22: an edge expression with an empty term (an empty side of '>>', an   *)
(* empty group '()', an empty slot between separators) fails with a parse  *)
(* error that quotes the expression, and yields no edge.                   *)
(***************************************************************************)
HasEmptyTerm(side) ==
    side.terms = <<>> \/ \E i \in 1..Len(side.terms) : side.terms[i] = <<>>
C22_EmptyTermFails ==
    (dsl.done /\ (HasEmptyTerm(dsl.left) \/ HasEmptyTerm(dsl.right)))
        => /\ dsl.parse.raised
           /\ dsl.parse.message.quoted = <<dsl.expr>>
           /\ dsl.parse.edges = <<>>

(***************************************************************************)
(* C23: every constructed Flow is well-formed, whatever the edge list and  *)
(* its duplicates: the entry and every edge endpoint are nodes, d is in    *)
(* adjacency[s] exactly when s is in reverse[d], parent_counts[id] is      *)
(* |reverse[id]| and parent_order[id] is reverse[id] in ascending order of *)
(* id; a construction with an unknown entry or endpoint fails with a       *)
(* FlowError instead.                                                      *)
(***************************************************************************)
C23_FlowWellFormed ==
    /\ Built
          => /\ entry_id \in Nodes
             /\ \A n \in Nodes : adjacency[n] \subseteq Nodes /\ reverse[n] \subseteq Nodes
             /\ \A src, dst \in Nodes : dst \in adjacency[src] <=> src \in reverse[dst]
             /\ \A n \in Nodes :
                   /\ parent_counts[n] = Cardinality(reverse[n])
                   /\ Len(parent_order[n]) = Cardinality(reverse[n])
                   /\ {parent_order[n][i] : i \in 1..Len(parent_order[n])} = reverse[n]
                   /\ \A i, j \in 1..Len(parent_order[n]) :
                         i < j => parent_order[n][i] < parent_order[n][j]
    /\ pc = "init_failed"
          => /\ error.type = "FlowError"
             /\ error.invalid # {}
             /\ error.invalid \cap Nodes = {}
\* a Flow built from three edges, two of them the same, with a node that
\* has two parents
C23_Witness ==
    /\ pc = "built"
    /\ edges_seen = 3
    /\ \E n \in Nodes : parent_counts[n] = 2 /\ adjacency[n] = {}
    /\ \E n \in Nodes : Cardinality(adjacency[n]) = 1 /\ reverse[n] = {}
    /\ Cardinality({n \in Nodes : adjacency[n] # {}}) = 2
    /\ \A n \in Nodes : Cardinality(adjacency[n]) <= 1

(***************************************************************************)
(* Node.bind, called by Flow.__init__ for every node of the nodes mapping. *)
(***************************************************************************)
\* the bind calls made, and the Node objects they are made on
MaxBinds == 3
NodeObjects == {"n1", "n2", "n3"}

\* the nodes are unbound: _node_id is None
InitBind ==
    /\ FlowAtRest
    /\ runtime = AtRest
    /\ binding = [node_id |-> [o \in NodeObjects |-> UnknownId], calls |-> 0,
                  target |-> "n1", requested |-> UnknownId, raised |-> FALSE]
    /\ dsl = AtRest
    /\ resolver = AtRest
    /\ merging = AtRest
    /\ validating = AtRest
    /\ tracker = AtRest

\* node.bind(node_id)
Bind(node, id) ==
    /\ binding.calls < MaxBinds
    /\ binding' = [binding EXCEPT !.node_id[node] = id, !.calls = @ + 1, !.target = node,
                                  !.requested = id, !.raised = FALSE]
    /\ UNCHANGED <<core_vars, runtime, dsl, resolver, merging, validating, tracker>>

NextBind == \E node \in NodeObjects, id \in Nodes : Bind(node, id)

SpecBind == InitBind /\ [][NextBind]_vars

(***************************************************************************)
(* C24: bind on an unbound node assigns its identity; binding again with   *)
(* the same id succeeds and leaves the identity as it is; binding a bound  *)
(* node to another id fails with a configuration error and the node keeps  *)
(* its id.                                                                 *)
(***************************************************************************)
C24_BindOnce ==
    [][binding'.calls = binding.calls + 1
          => LET node == binding'.target
                 bound == binding.node_id[node]
             IN  IF bound = UnknownId \/ bound = binding'.requested
                 THEN ~binding'.raised /\ binding'.node_id[node] = binding'.requested
                 ELSE binding'.raised /\ binding'.node_id[node] = bound]_vars

(***************************************************************************)
(* The resolver: _get_from_path and _set_to_path over nested mappings.     *)
(* A path is a string, a sequence of characters; a key is one too.         *)
(***************************************************************************)
MaxPath == 3
PathChars == {"a", "b", "."}
Paths == UNION {[1..n -> PathChars] : n \in 0..MaxPath}

\* a dict held as a value, and the empty dict
Mapping(f) == [k |-> "mapping", s |-> "", m |-> f]
EmptyMapping == [x \in {} |-> None]
\* isinstance(value, Mapping)
IsMapping(value) == value.k = "mapping"

\* the mappings a caller may hand over: two levels of dicts over two keys
PathKeys == {<<"a">>, <<"b">>}
Dicts(values) == UNION {[D -> values] : D \in SUBSET PathKeys}
Leaves == {None, Str("v1")}
Mappings == Dicts(Leaves \cup {Mapping(f) : f \in Dicts(Leaves)})
\* current[key] = value
Put(current, key, value) ==
    [x \in DOMAIN current \cup {key} |-> IF x = key THEN value ELSE current[x]]
\* the values written
WrittenValues == {None, Str("v2"), Mapping(Put(EmptyMapping, <<"a">>, Str("v1")))}

\* [p for p in path.split(".") if p]
Parts(path) == SelectSeq(Split(path, <<".">>), NonEmpty)

\* the loop of _get_from_path
RECURSIVE Walk(_, _)
Walk(current, parts) ==
    IF parts = <<>> THEN current
    ELSE IF ~IsMapping(current) \/ Head(parts) \notin DOMAIN current.m THEN None
    ELSE Walk(current.m[Head(parts)], Tail(parts))

\* _get_from_path(mapping, path) for a path that is a string
GetFromMapping(mapping, path) ==
    IF path = <<>> THEN None ELSE Walk(Mapping(mapping), Parts(path))

\* the loop of _set_to_path and its last assignment
RECURSIVE SetParts(_, _, _)
SetParts(current, parts, value) ==
    IF Len(parts) = 1 THEN Put(current, parts[1], value)
    ELSE LET got == IF Head(parts) \in DOMAIN current THEN current[Head(parts)] ELSE None
             next_item == IF IsMapping(got) THEN got.m ELSE EmptyMapping
         IN  Put(current, Head(parts), Mapping(SetParts(next_item, Tail(parts), value)))

\* a mutant of SetToPath: the path is one key, dots and all
SetToPathOneKey(mapping, path, value) ==
    IF path = <<>> THEN mapping ELSE Put(mapping, path, value)

\* _set_to_path(mapping, path, value): the mapping afterwards
SetToPath(mapping, path, value) ==
    IF path = <<>> \/ Parts(path) = <<>> THEN mapping
    ELSE SetParts(mapping, Parts(path), value)

InitResolver ==
    /\ FlowAtRest
    /\ runtime = AtRest
    /\ \E mapping \in Mappings, path \in Paths, value \in WrittenValues :
          resolver = [at |-> "start", before |-> mapping, mapping |-> mapping,
                      path |-> path, value |-> value, result |-> None]
    /\ dsl = AtRest
    /\ binding = AtRest
    /\ merging = AtRest
    /\ validating = AtRest
    /\ tracker = AtRest

\* _set_to_path(mapping, path, value)
WritePath ==
    /\ resolver.at = "start"
    /\ resolver' = [resolver EXCEPT !.at = "written",
                       !.mapping = SetToPath(resolver.mapping, resolver.path, resolver.value)]
    /\ UNCHANGED <<core_vars, runtime, dsl, binding, merging, validating, tracker>>

\* _get_from_path(mapping, path), after the write or without one
ReadPath ==
    /\ resolver.at \in {"start", "written"}
    /\ resolver' = [resolver EXCEPT
                       !.at = IF resolver.at = "written" THEN "read_back" ELSE "read_unwritten",
                       !.result = GetFromMapping(resolver.mapping, resolver.path)]
    /\ UNCHANGED <<core_vars, runtime, dsl, binding, merging, validating, tracker>>

NextResolver == WritePath \/ ReadPath

SpecResolver == InitResolver /\ [][NextResolver]_vars

\* the value holds something at every segment of parts
RECURSIVE Holds(_, _)
Holds(current, parts) ==
    \/ parts = <<>>
    \/ /\ IsMapping(current)
       /\ Head(parts) \in DOMAIN current.m
       /\ Holds(current.m[Head(parts)], Tail(parts))

\* reading a path the mapping does not hold gives None
UnwrittenIsNone ==
    resolver.at = "read_unwritten" /\ ~Holds(Mapping(resolver.before), Parts(resolver.path))
        => resolver.result = None

(***************************************************************************)
(* C25 as stated: for any value and any dotted path, reading the path      *)
(* after writing the value at it returns the value, whatever the mapping   *)
(* held before; reading a path that was never written returns None.        *)
(***************************************************************************)
C25_RoundTrip ==
    /\ resolver.at = "read_back" => resolver.result = resolver.value
    /\ UnwrittenIsNone

(***************************************************************************)
(* C25, amended: the round trip holds for every path with a non-empty      *)
(* segment (empty segments are skipped); a path with none writes nothing,  *)
(* and reads None if it is the empty string and the whole mapping          *)
(* otherwise; reading a path the mapping does not hold gives None.         *)
(***************************************************************************)
C25_RoundTripOnSegments ==
    /\ resolver.at = "read_back" =>
          IF Parts(resolver.path) # <<>> THEN resolver.result = resolver.value
          ELSE /\ resolver.mapping = resolver.before
               /\ resolver.result =
                     IF resolver.path = <<>> THEN None ELSE Mapping(resolver.before)
    /\ UnwrittenIsNone

\* a value written through an intermediate segment that held a string
C25_Witness ==
    /\ resolver.at = "read_back"
    /\ Len(Parts(resolver.path)) = 2
    /\ Parts(resolver.path)[1] \in DOMAIN resolver.before
    /\ resolver.before[Parts(resolver.path)[1]] = Str("v1")
    /\ resolver.value = Str("v2")
    /\ resolver.result = Str("v2")

\* a read through a missing or non-mapping intermediate that gave None
C25_WitnessUnwritten ==
    /\ resolver.at = "read_unwritten"
    /\ Len(Parts(resolver.path)) = 2
    /\ Parts(resolver.path)[1] \in DOMAIN resolver.before
    /\ ~IsMapping(resolver.before[Parts(resolver.path)[1]])
    /\ resolver.result = None

(***************************************************************************)
(* Policies: Retry, OnError and Policy instances, the mappings that        *)
(* override them, and _merge_policy.  A key of a mapping is either omitted *)
(* or given with a value.                                                  *)
(***************************************************************************)
Omitted == <<>>
Given(value) == <<value>>
Optional(values) == {Omitted} \cup {Given(v) : v \in values}
\* mapping.get(key, default)
ValueOr(entry, default) == IF Len(entry) = 0 THEN default ELSE entry[1]
\* text or default
TextOr(text, default) == IF text = "" THEN default ELSE text

Retry(max_attempts, delay, mode) ==
    [max_attempts |-> max_attempts, delay |-> delay, mode |-> mode]
OnError(action, target) == [action |-> action, target |-> target]
Policy(fail_fast, timeout, retry, on_error) ==
    [fail_fast |-> fail_fast, timeout |-> timeout, retry |-> retry, on_error |-> on_error]
\* Policy()
PolicyDefaults == Policy(TRUE, "0s", Retry(0, 0, "fixed"), OnError("stop", None))

AllowedActions == {"stop", "continue", "goto"}
AllowedModes == {"fixed", "exponential"}

\* the values callers put into instances and mappings
AttemptValues == {-1, 2}
DelayValues == {-1, 1}
ModeValues == {"exponential", "FIXED", "linear"}
ActionValues == {"continue", "goto", "GOTO", "", "retry"}
TargetValues == {None, Str(""), Str("t")}
TimeoutValues == {"5s", "-5s", "bad"}

\* what a mapping may hold under "retry": a Retry instance, a number, a
\* mapping, or something else (None, a list)
RetryInstance(retry) ==
    [kind |-> "Retry", max_attempts |-> Given(retry.max_attempts),
     delay |-> Given(retry.delay), mode |-> Given(retry.mode)]
RetryValues ==
    {RetryInstance(Retry(a, d, m)) : a \in AttemptValues, d \in DelayValues, m \in ModeValues}
        \cup {[kind |-> "number", max_attempts |-> Given(a), delay |-> Omitted,
               mode |-> Omitted] : a \in AttemptValues}
        \cup [kind : {"mapping"}, max_attempts : Optional(AttemptValues),
              delay : Optional(DelayValues), mode : Optional(ModeValues)]
        \cup {[kind |-> "other", max_attempts |-> Omitted, delay |-> Omitted, mode |-> Omitted]}
\* what a mapping may hold under "on_error": an OnError instance, a string,
\* a mapping, or something else
OnErrorInstance(on_error) ==
    [kind |-> "OnError", action |-> Given(on_error.action), target |-> Given(on_error.target)]
OnErrorValues ==
    {OnErrorInstance(OnError(a, t)) : a \in ActionValues, t \in TargetValues}
        \cup {[kind |-> "str", action |-> Given(a), target |-> Omitted] : a \in ActionValues}
        \cup [kind : {"mapping"}, action : Optional(ActionValues),
              target : Optional(TargetValues)]
        \cup {[kind |-> "other", action |-> Omitted, target |-> Omitted]}

\* a policy given as a mapping
Configs ==
    [fail_fast : Optional({FALSE}), timeout : Optional(TimeoutValues),
     retry : Optional(RetryValues), on_error : Optional(OnErrorValues)]
EmptyConfig ==
    [fail_fast |-> Omitted, timeout |-> Omitted, retry |-> Omitted, on_error |-> Omitted]
\* Policy instances
PolicyInstances ==
    {Policy(f, t, Retry(a, d, m), OnError(x, y)) :
        f \in BOOLEAN, t \in TimeoutValues \cup {"0s"}, a \in AttemptValues,
        d \in DelayValues, m \in ModeValues, x \in ActionValues, y \in TargetValues}
        \cup {PolicyDefaults}
\* an override or a policy definition: None, a Policy, a mapping, or
\* something else
Definition(kind, instance, config) == [kind |-> kind, policy |-> instance, config |-> config]
Definitions ==
    {Definition("None", PolicyDefaults, EmptyConfig),
     Definition("other", PolicyDefaults, EmptyConfig)}
        \cup {Definition("Policy", instance, EmptyConfig) : instance \in PolicyInstances}
        \cup {Definition("mapping", PolicyDefaults, config) : config \in Configs}
\* the base policies: the defaults, another well-formed one, an ill-formed one
BasePolicies ==
    {PolicyDefaults,
     Policy(FALSE, "5s", Retry(2, 1, "exponential"), OnError("goto", Str("t"))),
     Policy(TRUE, "0s", Retry(-1, 0, "fixed"), OnError("stop", None))}

Max(x, y) == IF x >= y THEN x ELSE y

\* _build_retry(base, value)
BuildRetry(base, value) ==
    CASE value.kind = "Retry" ->
            Retry(value.max_attempts[1], value.delay[1], value.mode[1])
      [] value.kind = "number" -> Retry(value.max_attempts[1], base.delay, base.mode)
      [] value.kind = "mapping" ->
            LET mode == ValueOr(value.mode, TextOr(base.mode, "fixed"))
            IN  Retry(ValueOr(value.max_attempts, base.max_attempts),
                      Max(ValueOr(value.delay, base.delay), 0),
                      IF mode \notin AllowedModes THEN "fixed" ELSE mode)
      [] OTHER -> base

\* _build_on_error(base, value)
BuildOnError(base, value) ==
    CASE value.kind = "OnError" -> OnError(value.action[1], value.target[1])
      [] value.kind = "str" -> OnError(value.action[1], None)
      [] value.kind = "mapping" ->
            OnError(ValueOr(value.action, TextOr(base.action, "stop")),
                    ValueOr(value.target, base.target))
      [] OTHER -> base

\* the mapping _merge_policy makes of a Policy instance
AsConfig(instance) ==
    [fail_fast |-> Given(instance.fail_fast), timeout |-> Given(instance.timeout),
     retry |-> Given(RetryInstance(instance.retry)),
     on_error |-> Given(OnErrorInstance(instance.on_error))]
\* the mapping an override stands for
ConfigOf(override_value) ==
    IF override_value.kind = "Policy" THEN AsConfig(override_value.policy)
    ELSE override_value.config

\* _merge_policy(base, override_value)
MergePolicy(base, override_value) ==
    IF override_value.kind \in {"None", "other"} THEN base
    ELSE LET override == ConfigOf(override_value)
         IN  Policy(ValueOr(override.fail_fast, base.fail_fast),
                    ValueOr(override.timeout, base.timeout),
                    IF Len(override.retry) > 0
                    THEN BuildRetry(base.retry, override.retry[1]) ELSE base.retry,
                    IF Len(override.on_error) > 0
                    THEN BuildOnError(base.on_error, override.on_error[1])
                    ELSE base.on_error)

InitMerge ==
    /\ FlowAtRest
    /\ runtime = AtRest
    /\ \E base \in BasePolicies, override_value \in Definitions :
          merging = [at |-> "start", base |-> base, override_value |-> override_value,
                     result |-> base]
    /\ dsl = AtRest
    /\ binding = AtRest
    /\ resolver = AtRest
    /\ validating = AtRest
    /\ tracker = AtRest

\* a call of _merge_policy
Merge ==
    /\ merging.at = "start"
    /\ merging' = [merging EXCEPT !.at = "merged",
                      !.result = MergePolicy(merging.base, merging.override_value)]
    /\ UNCHANGED <<core_vars, runtime, dsl, binding, resolver, validating, tracker>>

NextMerge == Merge

SpecMerge == InitMerge /\ [][NextMerge]_vars

(***************************************************************************)
(* C26: the effective policy is the base with each top-level field         *)
(* replaced by the override's when the override provides it; a retry or    *)
(* on_error the override provides decides the effective one alone,         *)
(* whatever the base holds.                                                *)
(***************************************************************************)
C26_OverrideReplacesWholesale ==
    merging.at = "merged" /\ merging.override_value.kind \in {"Policy", "mapping"} =>
        LET override == ConfigOf(merging.override_value)
            result == merging.result
        IN  /\ result.fail_fast = ValueOr(override.fail_fast, merging.base.fail_fast)
            /\ result.timeout = ValueOr(override.timeout, merging.base.timeout)
            /\ IF Len(override.retry) = 0 THEN result.retry = merging.base.retry
               ELSE \A other \in BasePolicies :
                       MergePolicy(other, merging.override_value).retry = result.retry
            /\ IF Len(override.on_error) = 0 THEN result.on_error = merging.base.on_error
               ELSE \A other \in BasePolicies :
                       MergePolicy(other, merging.override_value).on_error = result.on_error

(***************************************************************************)
(* PolicyValidator: validate, _validate_mapping, normalize and from_dict.  *)
(***************************************************************************)
\* str.lower() on the texts in use
Lower(text) ==
    CASE text = "GOTO" -> "goto"
      [] text = "FIXED" -> "fixed"
      [] OTHER -> text
\* number * factor in _parse_duration_seconds, for the texts it can read
DurationNumber(text) ==
    CASE text = "0s" -> 0
      [] text = "5s" -> 5
      [] text = "-5s" -> -5
\* _parse_duration_seconds(value) for a text: the seconds, or -1 where
\* float() raises
ParseDurationSeconds(text) ==
    IF text \in {"0s", "5s", "-5s"} THEN Max(DurationNumber(text), 0) ELSE -1
\* _parse_duration_seconds(value) for a number
ParseDurationNumber(number) == Max(number, 0)
DurationRaises(text) == ParseDurationSeconds(text) < 0
\* bool(target)
Truthy(target) == target # None /\ target # Str("")

\* PolicyValidator.validate(policy) raises PolicyValidationError
ValidateRaises(instance) ==
    LET action == Lower(TextOr(instance.on_error.action, ""))
    IN  \/ DurationRaises(instance.timeout)
        \/ instance.retry.max_attempts < 0
        \/ instance.retry.delay < 0
        \/ instance.retry.mode \notin AllowedModes
        \/ action # "" /\ action \notin AllowedActions
        \/ action = "goto" /\ ~Truthy(instance.on_error.target)

\* PolicyValidator._validate_mapping(config) raises PolicyValidationError
ValidateMappingRaises(config) ==
    \/ Len(config.timeout) > 0 /\ DurationRaises(config.timeout[1])
    \/ /\ Len(config.retry) > 0
       /\ LET retry_value == config.retry[1]
          IN  CASE retry_value.kind = "mapping" ->
                      \/ /\ Len(retry_value.max_attempts) > 0
                         /\ retry_value.max_attempts[1] < 0
                      \/ /\ Len(retry_value.delay) > 0
                         /\ ParseDurationNumber(retry_value.delay[1]) < 0
                      \/ /\ Len(retry_value.mode) > 0
                         /\ Lower(retry_value.mode[1]) \notin AllowedModes
                [] retry_value.kind = "number" -> retry_value.max_attempts[1] < 0
                [] OTHER -> TRUE
    \/ /\ Len(config.on_error) > 0
       /\ LET on_error_value == config.on_error[1]
          IN  CASE on_error_value.kind = "mapping" ->
                      LET action_value == Lower(ValueOr(on_error_value.action, ""))
                      IN  \/ action_value # "" /\ action_value \notin AllowedActions
                          \/ /\ action_value = "goto"
                             /\ ~Truthy(ValueOr(on_error_value.target, None))
                [] on_error_value.kind = "str" ->
                      Lower(on_error_value.action[1]) \notin AllowedActions
                [] OTHER -> TRUE

\* _clone_policy(policy)
ClonePolicy(instance) ==
    Policy(instance.fail_fast, instance.timeout,
           Retry(instance.retry.max_attempts, instance.retry.delay, instance.retry.mode),
           OnError(instance.on_error.action, instance.on_error.target))

Rejected == [raised |-> TRUE, policy |-> PolicyDefaults]
Returned(instance) == [raised |-> FALSE, policy |-> instance]

\* PolicyValidator.normalize(policy, base=base); base is Omitted for None
Normalize(definition, base) ==
    LET base_policy == IF Len(base) > 0 THEN ClonePolicy(base[1]) ELSE PolicyDefaults
    IN  IF ValidateRaises(base_policy) THEN Rejected
        ELSE CASE definition.kind = "None" -> Returned(base_policy)
               [] definition.kind = "Policy" ->
                     LET candidate == ClonePolicy(definition.policy)
                     IN  IF ValidateRaises(candidate) THEN Rejected ELSE Returned(candidate)
               [] definition.kind = "mapping" ->
                     LET merged == MergePolicy(base_policy, definition)
                     IN  IF ValidateMappingRaises(definition.config) \/ ValidateRaises(merged)
                         THEN Rejected ELSE Returned(merged)
               [] OTHER -> Rejected

\* PolicyValidator.from_dict(config, base=base)
FromDict(definition, base) ==
    IF definition.kind # "mapping" THEN Rejected ELSE Normalize(definition, base)

InitValidate ==
    /\ FlowAtRest
    /\ runtime = AtRest
    /\ \E definition \in Definitions, base \in Optional(BasePolicies) :
          validating = [at |-> "start", definition |-> definition, base |-> base,
                        outcome |-> Rejected]
    /\ dsl = AtRest
    /\ binding = AtRest
    /\ resolver = AtRest
    /\ merging = AtRest
    /\ tracker = AtRest

\* a call of PolicyValidator.normalize
NormalizeCall ==
    /\ validating.at = "start"
    /\ validating' = [validating EXCEPT !.at = "normalize",
                         !.outcome = Normalize(validating.definition, validating.base)]
    /\ UNCHANGED <<core_vars, runtime, dsl, binding, resolver, merging, tracker>>

\* a call of PolicyValidator.from_dict
FromDictCall ==
    /\ validating.at = "start"
    /\ validating' = [validating EXCEPT !.at = "from_dict",
                         !.outcome = FromDict(validating.definition, validating.base)]
    /\ UNCHANGED <<core_vars, runtime, dsl, binding, resolver, merging, tracker>>

NextValidate == NormalizeCall \/ FromDictCall

SpecValidate == InitValidate /\ [][NextValidate]_vars

WellFormed(instance) ==
    /\ instance.retry.max_attempts >= 0
    /\ instance.retry.delay >= 0
    /\ instance.retry.mode \in AllowedModes
    /\ instance.on_error.action \in AllowedActions
    /\ instance.on_error.action = "goto" => Truthy(instance.on_error.target)

(***************************************************************************)
(* C27: a policy returned by normalize or from_dict is well-formed:        *)
(* max_attempts and delay are not negative, the mode is fixed or           *)
(* exponential, the action is stop, continue or goto, and goto has a       *)
(* non-empty target; any other input is rejected.                          *)
(***************************************************************************)
C27_NormalizedIsWellFormed ==
    validating.at \in {"normalize", "from_dict"} =>
        validating.outcome.raised \/ WellFormed(validating.outcome.policy)

(***************************************************************************)
(* SpanTracker: the span stack, the pending span records and the current   *)
(* span of the context, with a tracer whose callbacks may raise.           *)
(***************************************************************************)
\* the spans one tracker starts
MaxSpans == 3
SpanIds == 1..MaxSpans
\* no span: None as a span id
NoSpan == 0

\* the span_payload of start_span, as far as the tracker looks at it
SpanPayload(span_id, parent_span_id, trace_id) ==
    [span_id |-> span_id, parent_span_id |-> parent_span_id, trace_id |-> trace_id]
\* an entry of _stack: the span id and the token, which holds the span that
\* was current before
StackEntry(span_id, token) == [span_id |-> span_id, token |-> token]
\* the method called last, its span_id argument, whether the tracer raised
\* in its callbacks and whether the exception left the method
Call(op, span_id, raises, propagated) ==
    [op |-> op, span_id |-> span_id, raises |-> raises, propagated |-> propagated]
\* self._stack[-1]
Top(stack) == stack[Len(stack)]
\* self._spans.pop(span_id)
PopSpan(spans, span_id) == {payload \in spans : payload.span_id # span_id}

\* SpanTracker.__init__
InitTracker ==
    /\ FlowAtRest
    /\ runtime = AtRest
    /\ \E trace_id \in {"trace1", "trace2"}, has_tracer \in BOOLEAN :
          tracker = [trace_id |-> trace_id, has_tracer |-> has_tracer, stack |-> <<>>,
                     spans |-> {}, current |-> NoSpan, next_id |-> 1, closed |-> FALSE,
                     ended |-> [i \in SpanIds |-> 0], events |-> <<>>,
                     call |-> Call("init", NoSpan, FALSE, FALSE)]
    /\ dsl = AtRest
    /\ binding = AtRest
    /\ resolver = AtRest
    /\ merging = AtRest
    /\ validating = AtRest

\* a mutant of StartSpanOn: on_span_start is called outside any try
StartSpanUnguarded(t, raises) ==
    LET span_id == t.next_id
        parent_span_id == IF t.stack # <<>> THEN Top(t.stack).span_id ELSE NoSpan
        recorded == t.spans \cup {SpanPayload(span_id, parent_span_id, t.trace_id)}
    IN  IF raises
        THEN [t EXCEPT !.next_id = @ + 1, !.spans = recorded, !.events = <<>>,
                       !.call = Call("start", span_id, raises, TRUE)]
        ELSE [t EXCEPT !.next_id = @ + 1, !.spans = recorded, !.current = span_id,
                       !.events = <<>>,
                       !.stack = Append(@, StackEntry(span_id, t.current)),
                       !.call = Call("start", span_id, raises, FALSE)]

\* start_span on the tracker t
StartSpanOn(t, raises) ==
    LET span_id == t.next_id
        parent_span_id == IF t.stack # <<>> THEN Top(t.stack).span_id ELSE NoSpan
    IN  [t EXCEPT !.next_id = @ + 1,
                  !.spans = @ \cup {SpanPayload(span_id, parent_span_id, t.trace_id)},
                  !.current = span_id,
                  !.stack = Append(@, StackEntry(span_id, t.current)),
                  !.events = <<>>,
                  !.call = Call("start", span_id, raises, FALSE)]

\* a mutant of EndSpanOn: the stack is emptied whatever span is ended
EndSpanEmptying(t, span_id, raises) ==
    [t EXCEPT !.stack = <<>>,
              !.spans = PopSpan(@, span_id),
              !.current = IF t.stack = <<>> THEN @ ELSE t.stack[1].token,
              !.events = <<>>,
              !.call = Call("end", span_id, raises, FALSE)]

\* end_span(span_id) on the tracker t
EndSpanOn(t, span_id, raises) ==
    LET found == {i \in 1..Len(t.stack) : t.stack[i].span_id = span_id}
    IN  IF found = {}
        THEN [t EXCEPT !.stack = <<>>,
                       !.current = IF t.stack = <<>> THEN @ ELSE t.stack[1].token,
                       !.events = <<>>,
                       !.call = Call("end", span_id, raises, FALSE)]
        ELSE LET i == CHOOSE j \in found : \A k \in found : k <= j
                 rest == SubSeq(t.stack, 1, i - 1)
             IN  [t EXCEPT !.stack = rest,
                           !.spans = PopSpan(@, span_id),
                           !.current = IF rest # <<>> THEN Top(rest).span_id
                                       ELSE t.stack[i].token,
                           !.ended[span_id] = IF t.has_tracer THEN @ + 1 ELSE @,
                           !.events = <<>>,
                           !.call = Call("end", span_id, raises, FALSE)]

\* the event handed to on_event, as far as the tracker fills it in
Event(trace_id, span_id) == [trace_id |-> trace_id, span_id |-> span_id]

\* emit_event(span_id=span_id) on the tracker t: the events the tracer gets
EmitEventOn(t, span_id, raises) ==
    LET active_span_id == IF span_id # NoSpan THEN span_id ELSE t.current
    IN  [t EXCEPT !.events = IF t.has_tracer /\ active_span_id # NoSpan
                             THEN <<Event(t.trace_id, active_span_id)>> ELSE <<>>,
                  !.call = Call("event", span_id, raises, FALSE)]

\* a mutant of ModuleEmitEventOn: the event is given the outermost open span
ModuleEmitEventOutermost(t, raises) ==
    [t EXCEPT !.events = IF t.has_tracer /\ ~t.closed /\ t.current # NoSpan
                         THEN <<Event(t.trace_id, t.stack[1].span_id)>> ELSE <<>>,
              !.call = Call("emit", NoSpan, raises, FALSE)]

\* the module's emit_event in the context of the tracker t: the tracer, the
\* trace id and the span id are those the context variables hold, which are
\* the tracker's until close resets them
ModuleEmitEventOn(t, raises) ==
    [t EXCEPT !.events = IF t.has_tracer /\ ~t.closed /\ t.current # NoSpan
                         THEN <<Event(t.trace_id, t.current)>> ELSE <<>>,
              !.call = Call("emit", NoSpan, raises, FALSE)]

\* close on the tracker t
CloseOn(t, raises) ==
    [t EXCEPT !.stack = <<>>,
              !.spans = {payload \in @ : \A i \in 1..Len(t.stack) :
                                             t.stack[i].span_id # payload.span_id},
              !.current = IF t.stack = <<>> THEN @ ELSE t.stack[1].token,
              !.closed = TRUE,
              !.ended = [i \in SpanIds |->
                            IF /\ t.has_tracer
                               /\ \E k \in 1..Len(t.stack) : t.stack[k].span_id = i
                               /\ \E payload \in t.spans : payload.span_id = i
                            THEN @[i] + 1 ELSE @[i]],
              !.events = <<>>,
              !.call = Call("close", NoSpan, raises, FALSE)]

\* the tracer raises only where there is one and the method calls it
StartSpan(raises) ==
    /\ ~tracker.closed
    /\ tracker.next_id <= MaxSpans
    /\ raises => tracker.has_tracer
    /\ tracker' = StartSpanOn(tracker, raises)
    /\ UNCHANGED <<core_vars, runtime, dsl, binding, resolver, merging, validating>>

EndSpan(span_id, raises) ==
    /\ ~tracker.closed
    /\ raises => /\ tracker.has_tracer
                 /\ \E i \in 1..Len(tracker.stack) : tracker.stack[i].span_id = span_id
    /\ tracker' = EndSpanOn(tracker, span_id, raises)
    /\ UNCHANGED <<core_vars, runtime, dsl, binding, resolver, merging, validating>>

EmitEvent(span_id, raises) ==
    /\ ~tracker.closed
    /\ raises => tracker.has_tracer /\ (span_id # NoSpan \/ tracker.current # NoSpan)
    /\ tracker' = EmitEventOn(tracker, span_id, raises)
    /\ UNCHANGED <<core_vars, runtime, dsl, binding, resolver, merging, validating>>

Close(raises) ==
    /\ ~tracker.closed
    /\ raises => /\ tracker.has_tracer
                 /\ \E i \in 1..Len(tracker.stack), payload \in tracker.spans :
                       tracker.stack[i].span_id = payload.span_id
    /\ tracker' = CloseOn(tracker, raises)
    /\ UNCHANGED <<core_vars, runtime, dsl, binding, resolver, merging, validating>>

\* the module's emit_event is called, before close or after it
ModuleEmitEvent(raises) ==
    /\ raises => tracker.has_tracer /\ ~tracker.closed /\ tracker.current # NoSpan
    /\ tracker' = ModuleEmitEventOn(tracker, raises)
    /\ UNCHANGED <<core_vars, runtime, dsl, binding, resolver, merging, validating>>

NextTracker ==
    \E raises \in BOOLEAN :
        \/ StartSpan(raises)
        \/ \E span_id \in SpanIds : EndSpan(span_id, raises)
        \/ \E span_id \in SpanIds \cup {NoSpan} : EmitEvent(span_id, raises)
        \/ ModuleEmitEvent(raises)
        \/ Close(raises)

SpecTracker == InitTracker /\ [][NextTracker]_vars

\* the tracker after the call, had the tracer not raised in it
Quietly(t, call) ==
    CASE call.op = "start" -> StartSpanOn(t, FALSE)
      [] call.op = "end" -> EndSpanOn(t, call.span_id, FALSE)
      [] call.op = "event" -> EmitEventOn(t, call.span_id, FALSE)
      [] call.op = "emit" -> ModuleEmitEventOn(t, FALSE)
      [] OTHER -> CloseOn(t, FALSE)

(***************************************************************************)
(* C28: an exception the tracer raises in on_span_start, on_span_end or    *)
(* on_event does not leave start_span, end_span, emit_event or close, and  *)
(* the span stack and the pending span records come out as they would had  *)
(* the tracer not raised.                                                  *)
(***************************************************************************)
C28_TracerExceptionsSwallowed ==
    [][tracker'.call.raises =>
          /\ ~tracker'.call.propagated
          /\ tracker'.stack = Quietly(tracker, tracker'.call).stack
          /\ tracker'.spans = Quietly(tracker, tracker'.call).spans
          /\ tracker'.current = Quietly(tracker, tracker'.call).current
          /\ tracker'.events = Quietly(tracker, tracker'.call).events]_vars

\* a span started under another one while the tracer raised
C28_Witness ==
    /\ tracker.call.op = "start"
    /\ tracker.call.raises
    /\ Len(tracker.stack) = 2
    /\ Top(tracker.stack).span_id = tracker.call.span_id
    /\ \E payload \in tracker.spans : payload.span_id = tracker.call.span_id

\* the pending record of the span with this id
RecordOf(t, span_id) == CHOOSE payload \in t.spans : payload.span_id = span_id

\* each open span has a pending record that names the span below it on the
\* stack as its parent, or no parent at the bottom, and every record carries
\* the trace_id of the tracker
Nested ==
    /\ \A i \in 1..Len(tracker.stack) :
          /\ \E payload \in tracker.spans : payload.span_id = tracker.stack[i].span_id
          /\ RecordOf(tracker, tracker.stack[i].span_id).parent_span_id =
                IF i = 1 THEN NoSpan ELSE tracker.stack[i - 1].span_id
    /\ \A payload \in tracker.spans : payload.trace_id = tracker.trace_id
    /\ tracker.current = IF tracker.stack = <<>> THEN NoSpan ELSE Top(tracker.stack).span_id

\* a span is started under the innermost open span
StartedUnderInnermost ==
    tracker'.call.op = "start" /\ tracker'.next_id = tracker.next_id + 1 =>
        /\ Top(tracker'.stack).span_id = tracker.next_id
        /\ RecordOf(tracker', tracker.next_id) =
              SpanPayload(tracker.next_id,
                          IF tracker.stack = <<>> THEN NoSpan ELSE Top(tracker.stack).span_id,
                          tracker.trace_id)

\* ending the innermost span leaves its parent innermost
EndRestoresParent ==
    /\ tracker'.call.op = "end"
    /\ tracker.stack # <<>>
    /\ tracker'.call.span_id = Top(tracker.stack).span_id
    /\ tracker' # tracker
    => LET parent == RecordOf(tracker, Top(tracker.stack).span_id).parent_span_id
       IN  /\ tracker'.current = parent
           /\ IF parent = NoSpan THEN tracker'.stack = <<>>
              ELSE tracker'.stack # <<>> /\ Top(tracker'.stack).span_id = parent

(***************************************************************************)
(* C29: the spans of a tracker are strictly nested: a span started while   *)
(* others are open has the innermost open span as its parent, a span       *)
(* started with none open has no parent, all spans carry the tracker's     *)
(* trace_id, and ending the innermost span leaves its parent innermost.    *)
(***************************************************************************)
C29_SpansNested ==
    /\ []Nested
    /\ [][StartedUnderInnermost /\ EndRestoresParent]_vars

\* three spans nested in one another, and the innermost one ended
C29_Witness ==
    /\ tracker.call.op = "end"
    /\ tracker.call.span_id = 3
    /\ Len(tracker.stack) = 2
    /\ tracker.stack[1].span_id = 1
    /\ tracker.stack[2].span_id = 2
    /\ tracker.current = 2

(***************************************************************************)
(* C30: Flow.run leaves the graph of the Flow (entry, adjacency, reverse,  *)
(* parent_counts, parent_order, dependency_counts) and its nodes as they   *)
(* are, and every run starts from the dependency counts, an empty          *)
(* completed set, the entry alone in the queue and empty join buffers,     *)
(* whatever the run before left.                                           *)
(***************************************************************************)
C30_RunKeepsFlow ==
    [][/\ pc \notin {"new", "init_edges", "init_failed"} => UNCHANGED <<flow_vars, node_vars>>
       /\ runs' = runs + 1 =>
             /\ ready' = <<entry_id>>
             /\ in_queue' = {entry_id}
             /\ remaining' = dependency_counts
             /\ completed' = {}
             /\ join_buffers' = [n \in Nodes |-> <<>>]
             /\ last_output' = None
             /\ \E ctx \in CallerContexts \cup {context} :
                   context' = [ctx EXCEPT !.payloads[entry_id] =
                                              IF @ = Absent THEN user_input' ELSE @]]_vars

\* the second run of a Flow with a join, begun on a fresh context
C30_Witness ==
    /\ runs = 2
    /\ pc = "dequeued"
    /\ context.steps = <<>>
    /\ completed = {}
    /\ remaining = dependency_counts
    /\ \E n \in Nodes : parent_counts[n] = 2

(***************************************************************************)
(* C31: a routing decision takes precedence over a fixed next_route.  When *)
(* a node with a next_route has also left a routing decision, a decision   *)
(* without a target ends the branch and a decision naming declared         *)
(* successors notifies exactly those; next_route decides only when there   *)
(* is no decision.                                                         *)
(***************************************************************************)
\* the node that has just run has a next_route and left a routing decision
DecidesOverNextRoute ==
    /\ pc = "ran"
    /\ adjacency[node_id] # {}
    /\ next_route[node_id] # NoRoute
    /\ default_route[node_id] = NoRoute
    /\ context.routing[node_id] # NoRouting
    /\ context.routing[node_id].t \subseteq adjacency[node_id]
C31_RoutingBeforeNextRoute ==
    [][DecidesOverNextRoute
          => IF context.routing[node_id] = Stop
             THEN /\ pc' = "loop"
                  /\ ready' = ready
                  /\ \A s \in adjacency[node_id] : Untouched(s)
             ELSE NotifiesExactly(context.routing[node_id].t)]_vars

(***************************************************************************)
(* C32: when the routing, next_route and broadcast rules select nothing (a *)
(* decision without a target, a decision with an empty list, or a node     *)
(* without declared successors) and the node has a default_route, the      *)
(* selection becomes the default_route alone, which then passes the        *)
(* allowed-successor check or fails it.                                    *)
(***************************************************************************)
\* the node that has just run has a default_route and selects nothing
SelectsNothing ==
    /\ pc = "ran"
    /\ default_route[node_id] # NoRoute
    /\ next_route[node_id] = NoRoute
    /\ \/ adjacency[node_id] = {}
       \/ context.routing[node_id] = Stop
       \/ context.routing[node_id] = Many({})
C32_DefaultRouteWhenEmpty ==
    [][SelectsNothing
          => IF default_route[node_id] \in adjacency[node_id]
             THEN NotifiesExactly({default_route[node_id]})
             ELSE /\ pc' = "raised"
                  /\ error' = FlowError(node_id, {default_route[node_id]})]_vars

(***************************************************************************)
(* C33: a node with an inputs binding is called with the value the binding *)
(* resolves to in the context when the node starts, None when the path is  *)
(* missing, and not with payloads[node]; a node without a binding is       *)
(* called with payloads[node].                                             *)
(***************************************************************************)
\* the dequeued node is about to start
Starts == pc = "dequeued" /\ node_id \notin completed /\ remaining[node_id] = 0
C33_BindingDecidesPayload ==
    [][Starts
          => input_payload' =
                IF input_path[node_id] # NoPath
                THEN GetFromPath(context, input_path[node_id])
                ELSE Get(context.payloads, node_id)]_vars

(***************************************************************************)
(* C34: partial join input is held in join_buffers only.  In every state   *)
(* of a run context.joins[s] is absent or holds all parent_counts[s]       *)
(* parents of s, and it has entries only for nodes with more than one      *)
(* parent.                                                                 *)
(***************************************************************************)
C34_JoinsOnlyWhenFull ==
    \A s \in Nodes :
        context.joins[s] # Absent
            => /\ parent_counts[s] > 1
               /\ Len(context.joins[s].m) = parent_counts[s]

(***************************************************************************)
(* C35: normalize rejects negative durations alike: a mapping whose        *)
(* retry.delay or timeout is negative is rejected with a                   *)
(* PolicyValidationError, as a Policy instance with a negative retry.delay *)
(* is; a negative duration is never accepted and turned into another       *)
(* value.                                                                  *)
(***************************************************************************)
\* the definition holds a negative retry.delay or a negative timeout
NegativeDuration(definition) ==
    \/ /\ definition.kind = "Policy"
       /\ definition.policy.retry.delay < 0
    \/ /\ definition.kind = "mapping"
       /\ \/ definition.config.timeout = Given("-5s")
          \/ /\ Len(definition.config.retry) > 0
             /\ definition.config.retry[1].kind = "mapping"
             /\ Len(definition.config.retry[1].delay) > 0
             /\ definition.config.retry[1].delay[1] < 0
C35_NegativeDurationsRejected ==
    (validating.at \in {"normalize", "from_dict"} /\ NegativeDuration(validating.definition))
        => validating.outcome.raised

(***************************************************************************)
(* C36: an event emitted through the module's emit_event while the tracker *)
(* has open spans reaches the tracker's tracer once, with the tracker's    *)
(* trace_id and the span_id of the innermost open span; once that span is  *)
(* ended events carry the span_id of its parent; an event emitted with no  *)
(* span open is dropped.                                                   *)
(***************************************************************************)
\* what the tracer got from the module's emit_event
EventsFollowStack ==
    (tracker.call.op = "emit" /\ tracker.has_tracer /\ ~tracker.closed)
        => tracker.events =
              IF tracker.stack = <<>> THEN <<>>
              ELSE <<Event(tracker.trace_id, Top(tracker.stack).span_id)>>
C36_EventsCarryInnermostSpan ==
    /\ []EventsFollowStack
    /\ [][EndRestoresParent]_vars

\* an event emitted after the inner of two spans was ended carries the id of
\* the outer one
C36_Witness ==
    /\ tracker.call.op = "emit"
    /\ tracker.ended = [i \in SpanIds |-> IF i = 2 THEN 1 ELSE 0]
    /\ Len(tracker.stack) = 1
    /\ tracker.stack[1].span_id = 1
    /\ tracker.events = <<Event(tracker.trace_id, 1)>>

(***************************************************************************)
(* C37: end_span with a span id that is not open, never started or ended   *)
(* already, has no effect: the stack of open spans and their pending       *)
(* records are as before, every open span stays open, and the tracer gets  *)
(* no callback.                                                            *)
(***************************************************************************)
C37_EndOfUnopenedSpanIsNoOp ==
    [][(/\ tracker'.call.op = "end"
        /\ \A i \in 1..Len(tracker.stack) : tracker.stack[i].span_id # tracker'.call.span_id)
          => /\ tracker'.stack = tracker.stack
             /\ tracker'.spans = tracker.spans
             /\ tracker'.ended = tracker.ended]_vars

(***************************************************************************)
(* C38: by the time close has returned the tracer has received on_span_end *)
(* once, not twice and not at all, for every span started on the tracker,  *)
(* in whatever order the spans were ended.                                 *)
(***************************************************************************)
C38_EverySpanEndedOnce ==
    (tracker.closed /\ tracker.has_tracer)
        => \A span_id \in 1..(tracker.next_id - 1) : tracker.ended[span_id] = 1

(***************************************************************************)
(* FlowRuntime: the class variable _global and the calls of                *)
(* FlowRuntime.run, which may be nested or run in threads side by side.    *)
(***************************************************************************)
\* the FlowRuntime.run calls made
MaxCalls == 2
Calls == 1..MaxCalls
\* the FlowRuntime objects of the callers, and the one FlowRuntime.default()
\* makes
Runtimes == {"r1", "r2"}
DefaultRuntime == "default"
\* _global is None
NoRuntime == "None"

\* a call that has not begun
Idle == [at |-> "idle", self |-> NoRuntime, previous |-> NoRuntime, raised |-> FALSE]

InitRuntime ==
    /\ FlowAtRest
    /\ \E global \in Runtimes \cup {NoRuntime} :
          runtime = [global |-> global, initial |-> global, calls |-> [c \in Calls |-> Idle]]
    /\ dsl = AtRest
    /\ binding = AtRest
    /\ resolver = AtRest
    /\ merging = AtRest
    /\ validating = AtRest
    /\ tracker = AtRest

LibUnchanged == UNCHANGED <<core_vars, dsl, binding, resolver, merging, validating, tracker>>

\* FlowRuntime.run: previous = self.__class__._global
RuntimeRunSave(c, self) ==
    /\ runtime.calls[c].at = "idle"
    /\ runtime' = [runtime EXCEPT !.calls[c] =
                      [at |-> "saved", self |-> self, previous |-> runtime.global,
                       raised |-> FALSE]]
    /\ LibUnchanged

\* FlowRuntime.run: self.__class__._global = self
RuntimeRunInstall(c) ==
    /\ runtime.calls[c].at = "saved"
    /\ runtime' = [runtime EXCEPT !.global = runtime.calls[c].self,
                                  !.calls[c].at = "running"]
    /\ LibUnchanged

\* FlowRuntime.current(), called by what runs inside flow.run
RuntimeCurrent ==
    /\ \E c \in Calls : runtime.calls[c].at = "running"
    /\ runtime.global = NoRuntime
    /\ runtime' = [runtime EXCEPT !.global = DefaultRuntime]
    /\ LibUnchanged

\* FlowRuntime.run: flow.run returns or raises
RuntimeRunFlow(c, raised) ==
    /\ runtime.calls[c].at = "running"
    /\ runtime' = [runtime EXCEPT !.calls[c].at = "finally", !.calls[c].raised = raised]
    /\ LibUnchanged

\* FlowRuntime.run: the finally block
RuntimeRunRestore(c) ==
    /\ runtime.calls[c].at = "finally"
    /\ runtime' = [runtime EXCEPT !.global = runtime.calls[c].previous,
                                  !.calls[c].at = "done"]
    /\ LibUnchanged

NextRuntime ==
    \/ \E c \in Calls, self \in Runtimes : RuntimeRunSave(c, self)
    \/ \E c \in Calls : RuntimeRunInstall(c)
    \/ RuntimeCurrent
    \/ \E c \in Calls, raised \in BOOLEAN : RuntimeRunFlow(c, raised)
    \/ \E c \in Calls : RuntimeRunRestore(c)

SpecRuntime == InitRuntime /\ [][NextRuntime]_vars

(***************************************************************************)
(* C39: FlowRuntime.run restores the previous current runtime on return    *)
(* and on exception: once every FlowRuntime.run call that began, nested or *)
(* overlapping, has completed, _global is what it was before the first of  *)
(* them began.                                                             *)
(***************************************************************************)
C39_GlobalRestored ==
    (\A c \in Calls : runtime.calls[c].at \in {"idle", "done"})
        => runtime.global = runtime.initial

(***************************************************************************)
(* C40: the execution order is a function of the graph and the inputs: the *)
(* successors a node selects are enqueued in one fixed order, whatever     *)
(* order the iteration over the selected set takes, and the queue is       *)
(* drained first in, first out, so that two runs from equal contexts       *)
(* append the same steps.                                                  *)
(***************************************************************************)
\* the ready queue after the node that has just run has notified its
\* successors in the given order
ReadyAfter(order) ==
    NotifyAll([remaining |-> remaining, completed |-> completed \cup {node_id},
               joins |-> context.joins, join_buffers |-> join_buffers,
               payloads |-> context.payloads, ready |-> ready, in_queue |-> in_queue],
              order, node_id, Get(context.payloads, node_id)).ready
C40_OneExecutionOrder ==
    /\ [](pc = "ran" /\ ResolveSuccessors(node_id, context.routing).kind = "set"
            => Cardinality({ReadyAfter(order) :
                   order \in Orders(ResolveSuccessors(node_id, context.routing).selected)}) = 1)
    /\ [][pc = "loop" /\ pc' = "dequeued" => node_id' = Head(ready) /\ ready' = Tail(ready)]_vars

====
